---- MODULE Spec2Model ----
(***************************************************************************)
(* organizeme: the directory scanner (src/lib/project-scanner.ts), the     *)
(* status classification and the Git enrichment pass                       *)
(* (src/lib/git-utils.ts), as a state machine.                             *)
(*                                                                         *)
(* Time.  A Date is the record [time |-> t]; t is Date.getTime() counted   *)
(* in clock ticks, TicksPerDay ticks to the day (the source counts         *)
(* milliseconds, 86400000 to the day).  The code divides a difference of   *)
(* getTime() values by the length of a day and compares the quotient with  *)
(* 7 and 30; for integer differences  d / day <= 7  is  d <= 7 * day, and  *)
(* d / day > 30  is  d > 30 * day, which is how the comparisons are        *)
(* written here.  `new Date()` reads the variable now.                      *)
(***************************************************************************)
EXTENDS Integers, Sequences, FiniteSets, TLC

VARIABLES
    now,            \* the wall clock, in ticks
    argGitInfo,     \* classification call: the gitInfo argument
    argLastModified,\* classification call: the lastModified argument
    outProject,     \* what determineProjectStatus returned, and when
    outInitial,     \* what determineInitialStatus returned, and when
    root,           \* what the scanned root path is on disk
    entries,        \* the directory listing of the root (readdir order)
    includeHidden,  \* scanDirectory's option
    pc,             \* where the scan-and-enrich pipeline stands
    scanOut,        \* per listed directory: outcome of its scan callback
    results,        \* what scanDirectory returned
    projects,       \* filterSuccessfulScans(results), the enrichment input
    lookups,        \* per project: what its getGitStatus call completed with
    enrichOut,      \* per project: outcome of its enrichment callback
    enriched,       \* what enrichProjectsWithGitInfo returned
    gitObs,         \* getGitStatus call: what simple-git observes at the path
    gitPc,          \* getGitStatus call: where it stands
    gitCalls,       \* getGitStatus call: the simple-git calls issued so far
    gitResult,      \* getGitStatus call: what it resolved with
    tagFile,        \* the tag store file ~/.organizeme/project-tags.json
    tagCallers,     \* per caller of the tag store: its call and where it stands
    tagLastWriter,  \* the caller whose writeFile reached the tag file last
    slugName,       \* createProjectId calls: the directory name
    slugPc,         \* createProjectId calls: which calls have returned
    slugId,         \* createProjectId(name), first call
    slugIdAgain,    \* createProjectId(name), second call
    slugIdOfId,     \* createProjectId(createProjectId(name))
    remoteObs,      \* getGitRemoteUrl call: what simple-git observes at the path
    remotePc,       \* getGitRemoteUrl call: where it stands
    remoteResult,   \* getGitRemoteUrl call: what it resolved with
    caller,         \* the server function that runs the pipeline
    requestId,      \* the id parameter of GET /api/projects/[id]
    response,       \* what that function returned
    authToken,      \* AuthProvider: the token state
    authUser,       \* AuthProvider: the user state
    authLoading,    \* AuthProvider: the loading state
    authStorage,    \* localStorage item 'token'
    authMounted,    \* AuthProvider: whether the mount effects have run
    authEffectDep,  \* AuthProvider: the token the [token] effect last ran for
    authFetches,    \* per token: the /api/auth/me fetches in flight
    totalItems,     \* usePagination: the totalItems option of the last render
    currentPage,    \* usePagination: the currentPage state
    pageSize,       \* usePagination: the pageSize state
    searchParams,   \* the page and pageSize parameters of the URL
    pageCall,       \* usePagination: the function that ran last, with its argument
    sortArg,        \* sortProjects: the caller's array
    sortOption,     \* sortProjects: the sort option
    sortResult,     \* sortProjects: the returned array
    sortPc          \* sortProjects: called or returned

classifyVars == <<argGitInfo, argLastModified, outProject, outInitial>>
pipelineVars == <<root, entries, includeHidden, pc, scanOut, results, projects,
                  lookups, enrichOut, enriched>>
gitVars == <<gitObs, gitPc, gitCalls, gitResult>>
tagVars == <<tagFile, tagCallers, tagLastWriter>>
slugVars == <<slugName, slugPc, slugId, slugIdAgain, slugIdOfId>>
remoteVars == <<remoteObs, remotePc, remoteResult>>
routeVars == <<caller, requestId, response>>
authVars == <<authToken, authUser, authLoading, authStorage, authMounted, authEffectDep, authFetches>>
pageVars == <<totalItems, currentPage, pageSize, searchParams, pageCall>>
sortVars == <<sortArg, sortOption, sortResult, sortPc>>
extVars == <<gitVars, tagVars, slugVars, remoteVars,
             routeVars, authVars, pageVars, sortVars>>
coreVars == <<now, classifyVars, pipelineVars>>
notGitVars == <<tagVars, slugVars, remoteVars,
                routeVars, authVars, pageVars, sortVars>>
notTagVars == <<gitVars, slugVars, remoteVars,
                routeVars, authVars, pageVars, sortVars>>
notSlugVars == <<gitVars, tagVars, remoteVars,
                 routeVars, authVars, pageVars, sortVars>>
notRemoteVars == <<gitVars, tagVars, slugVars,
                   routeVars, authVars, pageVars, sortVars>>
notRouteVars == <<gitVars, tagVars, slugVars,
                  remoteVars, authVars, pageVars, sortVars>>
notAuthVars == <<gitVars, tagVars, slugVars,
                 remoteVars, routeVars, pageVars, sortVars>>
notPageVars == <<gitVars, tagVars, slugVars,
                 remoteVars, routeVars, authVars, sortVars>>
notSortVars == <<gitVars, tagVars, slugVars,
                 remoteVars, routeVars, authVars, pageVars>>
vars == <<now, classifyVars, pipelineVars, extVars>>

(***************************************************************************)
(* Bounds of the model.                                                    *)
(***************************************************************************)
TicksPerDay == 2     \* clock ticks in one day
MaxElapsed == 2      \* ticks the clock may advance during one behaviour
MaxDirs == 2         \* entries in the root's listing, scan followed by enrichment
MaxScanDirs == 3     \* entries in the root's listing, scan alone
MaxFilterEntries == 2 \* entries in the root's listing, filter of the scan

(***************************************************************************)
(* Program constants.                                                      *)
(***************************************************************************)
ActiveDays == 7
StaleDays == 30

StartTime == 100 * TicksPerDay

Undefined == [undefined |-> TRUE]
Pending == [pending |-> TRUE]

\* JavaScript values that are a string or something else.
Null == [null |-> TRUE]
JsString(str) == [string |-> str]

\* A getGitStatus call that is not running.
GitIdle ==
    /\ gitObs = Undefined
    /\ gitPc = "idle"
    /\ gitCalls = {}
    /\ gitResult = Undefined

\* The tag store callers.
Callers == {1, 2}

\* A caller that is not inside any tag store function.
NoCall ==
    [op |-> "none", id |-> "", tag |-> "", tags |-> <<>>, pc |-> "idle",
     currentTags |-> Undefined, allTags |-> <<>>]

\* A tag store nobody uses.
TagIdle ==
    /\ tagFile = [kind |-> "missing"]
    /\ tagCallers = [c \in Callers |-> NoCall]
    /\ tagLastWriter = 0

\* No createProjectId call.
SlugIdle ==
    /\ slugName = ""
    /\ slugPc = "idle"
    /\ slugId = ""
    /\ slugIdAgain = ""
    /\ slugIdOfId = ""

\* A getGitRemoteUrl call that is not running.
RemoteIdle ==
    /\ remoteObs = Undefined
    /\ remotePc = "idle"
    /\ remoteResult = Undefined

\* No server function on top of the pipeline.
RouteIdle ==
    /\ caller = "none"
    /\ requestId = ""
    /\ response = Undefined

\* An AuthProvider that is not mounted.
AuthIdle ==
    /\ authToken = Null
    /\ authUser = Null
    /\ authLoading = TRUE
    /\ authStorage = Null
    /\ authMounted = FALSE
    /\ authEffectDep = Null
    /\ authFetches = <<>>

\* No paginated list.
PageIdle ==
    /\ totalItems = 0
    /\ currentPage = 1
    /\ pageSize = 1
    /\ searchParams = Undefined
    /\ pageCall = Undefined

\* No sortProjects call.
SortIdle ==
    /\ sortArg = <<>>
    /\ sortOption = ""
    /\ sortResult = Undefined
    /\ sortPc = "idle"

\* The parts of the program a specification does not exercise stand idle.
IdleExcept(part) ==
    /\ part # "git" => GitIdle
    /\ part # "tags" => TagIdle
    /\ part # "slug" => SlugIdle
    /\ part # "remote" => RemoteIdle
    /\ part # "routes" => RouteIdle
    /\ part # "auth" => AuthIdle
    /\ part # "pagination" => PageIdle
    /\ part # "sort" => SortIdle

ExtIdle == IdleExcept("none")

Date(t) == [time |-> t]
getTime(d) == d.time

DaysAgo(n) == Date(StartTime - n * TicksPerDay)

\* Faulty variant: recency is looked at before dirtiness.
determineProjectStatus_recencyFirst(gitInfo, lastModified, at) ==
    LET referenceDate ==
            IF gitInfo # Undefined /\ gitInfo.lastCommitDate # Undefined
            THEN gitInfo.lastCommitDate
            ELSE lastModified
        since == getTime(at) - getTime(referenceDate)
    IN  IF since <= ActiveDays * TicksPerDay THEN "active"
        ELSE IF gitInfo # Undefined /\ gitInfo.isDirty THEN "dirty"
        ELSE IF since > StaleDays * TicksPerDay THEN "stale"
        ELSE IF gitInfo # Undefined THEN "clean"
        ELSE "unknown"

\* Faulty variant: the last commit date is ignored, lastModified is always the reference.
determineProjectStatus_mtimeOnly(gitInfo, lastModified, at) ==
    LET since == getTime(at) - getTime(lastModified)
    IN  IF gitInfo # Undefined /\ gitInfo.isDirty THEN "dirty"
        ELSE IF since <= ActiveDays * TicksPerDay THEN "active"
        ELSE IF since > StaleDays * TicksPerDay THEN "stale"
        ELSE IF gitInfo # Undefined THEN "clean"
        ELSE "unknown"

(***************************************************************************)
(* determineProjectStatus, git-utils.ts.  `at` is the value `new Date()`   *)
(* yields inside the call.                                                 *)
(***************************************************************************)
determineProjectStatus(gitInfo, lastModified, at) ==
    IF gitInfo # Undefined
    THEN IF gitInfo.isDirty
         THEN "dirty"
         ELSE LET referenceDate ==
                      IF gitInfo.lastCommitDate # Undefined
                      THEN gitInfo.lastCommitDate
                      ELSE lastModified
                  sinceActivity == getTime(at) - getTime(referenceDate)
              IN  IF sinceActivity <= ActiveDays * TicksPerDay THEN "active"
                  ELSE IF sinceActivity > StaleDays * TicksPerDay THEN "stale"
                  ELSE "clean"
    ELSE LET sinceModified == getTime(at) - getTime(lastModified)
         IN  IF sinceModified <= ActiveDays * TicksPerDay THEN "active"
             ELSE IF sinceModified > StaleDays * TicksPerDay THEN "stale"
             ELSE "unknown"

\* Faulty variant: the stale threshold is closed, exactly 30 days is already stale.
determineInitialStatus_closedStale(lastModified, at) ==
    LET sinceModified == getTime(at) - getTime(lastModified)
    IN  IF sinceModified <= ActiveDays * TicksPerDay THEN "active"
        ELSE IF sinceModified < StaleDays * TicksPerDay THEN "unknown"
        ELSE "stale"

(***************************************************************************)
(* determineInitialStatus, project-scanner.ts.                             *)
(***************************************************************************)
determineInitialStatus(lastModified, at) ==
    LET sinceModified == getTime(at) - getTime(lastModified)
    IN  IF sinceModified <= ActiveDays * TicksPerDay THEN "active"
        ELSE IF sinceModified <= StaleDays * TicksPerDay THEN "unknown"
        ELSE "stale"

(***************************************************************************)
(* The classification functions applied to drawn arguments.                *)
(***************************************************************************)
BoundaryAges ==
    { -TicksPerDay, 0, 2 * TicksPerDay,
      ActiveDays * TicksPerDay - 1, ActiveDays * TicksPerDay,
      ActiveDays * TicksPerDay + 1, 15 * TicksPerDay,
      StaleDays * TicksPerDay - 1, StaleDays * TicksPerDay,
      StaleDays * TicksPerDay + 1, 40 * TicksPerDay }

BoundaryDates == { Date(StartTime - a) : a \in BoundaryAges }

ClassifyGitInfos ==
    [isDirty : BOOLEAN, lastCommitDate : {Undefined} \cup BoundaryDates]

InitClassify ==
    /\ now = StartTime
    /\ argGitInfo \in {Undefined} \cup ClassifyGitInfos
    /\ argLastModified \in BoundaryDates
    /\ outProject = Undefined
    /\ outInitial = Undefined
    /\ root = "directory"
    /\ entries = <<>>
    /\ includeHidden = FALSE
    /\ pc = "idle"
    /\ scanOut = <<>>
    /\ results = <<>>
    /\ projects = <<>>
    /\ lookups = <<>>
    /\ enrichOut = <<>>
    /\ enriched = <<>>
    /\ ExtIdle

\* The clock advances between any two steps of the program.
Tick ==
    /\ now < StartTime + MaxElapsed
    /\ now' = now + 1
    /\ UNCHANGED <<extVars, classifyVars, pipelineVars>>

CallDetermineProjectStatus ==
    /\ pc = "idle"
    /\ outProject' = [status |-> determineProjectStatus(argGitInfo, argLastModified,
                                                        Date(now)),
                      at |-> now]
    /\ UNCHANGED <<extVars, now, argGitInfo, argLastModified, outInitial, pipelineVars>>

CallDetermineInitialStatus ==
    /\ pc = "idle"
    /\ outInitial' = [status |-> determineInitialStatus(argLastModified, Date(now)),
                      at |-> now]
    /\ UNCHANGED <<extVars, now, argGitInfo, argLastModified, outProject, pipelineVars>>

NextClassify ==
    \/ Tick
    \/ CallDetermineProjectStatus
    \/ CallDetermineInitialStatus

SpecClassify == InitClassify /\ [][NextClassify]_vars

(***************************************************************************)
(* The directory scanner, project-scanner.ts.                              *)
(*                                                                         *)
(* A directory entry of the root is [name, isDirectory, files, mtime]:     *)
(* files is the set of names that exist inside it, mtime what stat reports.*)
(***************************************************************************)
ProjectsPath == "/projects"

IGNORED_DIRECTORIES ==
    { "node_modules", ".git", ".next", ".cache", ".pnpm", "dist", "build",
      "coverage", "__pycache__", ".venv", "venv", ".idea", ".vscode" }

projectIndicators ==
    { "package.json", ".git", "README.md", "README.txt", "README",
      "pyproject.toml", "Cargo.toml", "go.mod", "pom.xml", "build.gradle",
      "Makefile" }

join(dir, name) == dir \o "/" \o name

startsWith(name, prefix) ==
    /\ Len(name) >= Len(prefix)
    /\ SubSeq(name, 1, Len(prefix)) = prefix

\* fileExists over the names present in a directory.
fileExists(files, name) == name \in files

isProjectDirectory(files) ==
    \E indicator \in projectIndicators : fileExists(files, indicator)


\* createProjectId (lines 121-127), on strings.

CharAt(str, i) == SubSeq(str, i, i)
Rest(str) == SubSeq(str, 2, Len(str))
HasChar(chars, c) == \E i \in 1..Len(chars) : CharAt(chars, i) = c

UpperCaseLetters == "ABCDEFGHIJKLMNOPQRSTUVWXYZ"
LowerCaseLetters == "abcdefghijklmnopqrstuvwxyz"
Digits == "0123456789"

\* The characters the class [^a-z0-9-_] does not match.
IdChars == LowerCaseLetters \o Digits \o "-_"

CharsOf(str) == {CharAt(str, i) : i \in 1..Len(str)}
UpperCaseSet == CharsOf(UpperCaseLetters)
IdCharSet == CharsOf(IdChars)

\* The lowercase letter of every uppercase letter.
LowerCaseOf ==
    [c \in UpperCaseSet |->
        CharAt(LowerCaseLetters,
               CHOOSE i \in 1..Len(UpperCaseLetters) : CharAt(UpperCaseLetters, i) = c)]

RECURSIVE toLowerCase(_)
toLowerCase(str) ==
    IF str = "" THEN ""
    ELSE (IF CharAt(str, 1) \in UpperCaseSet
          THEN LowerCaseOf[CharAt(str, 1)]
          ELSE CharAt(str, 1)) \o toLowerCase(Rest(str))

RECURSIVE replaceNonIdChars(_)
\* .replace(/[^a-z0-9-_]/g, '-')
replaceNonIdChars(str) ==
    IF str = "" THEN ""
    ELSE (IF CharAt(str, 1) \in IdCharSet THEN CharAt(str, 1) ELSE "-")
         \o replaceNonIdChars(Rest(str))

RECURSIVE collapseHyphens(_)
\* .replace(/-+/g, '-')
collapseHyphens(str) ==
    IF Len(str) < 2 THEN str
    ELSE IF CharAt(str, 1) = "-" /\ CharAt(str, 2) = "-"
    THEN collapseHyphens(Rest(str))
    ELSE CharAt(str, 1) \o collapseHyphens(Rest(str))

\* .replace(/^-|-$/g, ''): one hyphen at the start and one at the end.
trimHyphens(str) ==
    LET noLead == IF Len(str) > 0 /\ CharAt(str, 1) = "-" THEN Rest(str) ELSE str
    IN  IF Len(noLead) > 0 /\ CharAt(noLead, Len(noLead)) = "-"
        THEN SubSeq(noLead, 1, Len(noLead) - 1)
        ELSE noLead

\* Faulty variant: the ends are trimmed before the runs are collapsed.
createProjectId_trimFirst(name) ==
    collapseHyphens(trimHyphens(replaceNonIdChars(toLowerCase(name))))

\* Faulty variant: the name is not lowercased.
createProjectId_noLowerCase(name) ==
    trimHyphens(collapseHyphens(replaceNonIdChars(name)))

createProjectId(name) ==
    trimHyphens(collapseHyphens(replaceNonIdChars(toLowerCase(name))))

\* The tag store as the scanner reads it (tag-storage.ts).

EmptyObject == [k \in {} |-> <<>>]

\* JSON.stringify of a mapping and JSON.parse of the file: the own properties
\* of the object, which are arrays of strings, survive the round trip.
JsonFile(data) == [kind |-> "json", data |-> data]

\* loadProjectTags (lines 56-70): a missing file (ENOENT) and any other read
\* or parse error both give the empty object.
loadProjectTags(file) ==
    IF file.kind = "json" THEN file.data ELSE EmptyObject

\* The values `allTags[projectId] || []` can have: an array, or a property
\* that the object inherits from Object.prototype.
JsArray(list) == [array |-> list]
ObjectPrototypeKeys == {"constructor"}
ObjectPrototypeValue(key) == [function |-> "Object"]

\* getProjectTags (lines 126-129).  The object JSON.parse returns inherits
\* from Object.prototype, so the lookup of an id that is no own property but
\* names an inherited one gives the inherited value, which is truthy.  An
\* own property is an array, and every array is truthy.
getProjectTags(file, projectId) ==
    LET allTags == loadProjectTags(file)
    IN  IF projectId \in DOMAIN allTags
        THEN JsArray(allTags[projectId])
        ELSE IF projectId \in ObjectPrototypeKeys
        THEN ObjectPrototypeValue(projectId)
        ELSE JsArray(<<>>)

\* The Error a failing filesystem or JSON call throws.
FsError(call) == [isError |-> TRUE, message |-> call \o " failed"]

\* The package.json of a directory: unreadable, not JSON, or a JSON object
\* with or without a description.
Manifest(description) == [kind |-> "json", description |-> description]
UnreadableManifest == [kind |-> "unreadable"]
InvalidManifest == [kind |-> "invalid"]

\* Faulty variant: a read or parse error of the manifest is not caught.
getProjectDescription_noCatch(entry) ==
    IF ~fileExists(entry.files, "package.json") THEN Undefined
    ELSE IF entry.manifest.kind = "json" THEN entry.manifest.description
    ELSE [thrown |-> FsError("read package.json")]

\* getProjectDescription (lines 155-171): undefined without a package.json
\* and on any read or parse error, else the description of the manifest.
getProjectDescription(entry) ==
    IF ~fileExists(entry.files, "package.json") THEN Undefined
    ELSE IF entry.manifest.kind = "json" THEN entry.manifest.description
    ELSE Undefined

\* Faulty variant: the tags are looked up under the directory's name.
scanProject_tagsByName(dirPath, entry, at) ==
    LET projectId == createProjectId(entry.name)
    IN  [ id |-> projectId,
          name |-> entry.name,
          path |-> dirPath,
          description |-> getProjectDescription(entry),
          status |-> determineInitialStatus(entry.mtime, at),
          lastModified |-> entry.mtime,
          hasPackageJson |-> fileExists(entry.files, "package.json"),
          hasReadme |-> \E r \in {"README.md", "README.txt", "README"} :
                            fileExists(entry.files, r),
          gitInfo |-> Undefined,
          tags |-> getProjectTags(tagFile, entry.name) ]

\* scanProject: the record built for one directory; `at` is the clock read
\* by determineInitialStatus.
scanProject(dirPath, entry, at) ==
    LET projectId == createProjectId(entry.name)
    IN  [ id |-> projectId,
          name |-> entry.name,
          path |-> dirPath,
          description |-> getProjectDescription(entry),
          status |-> determineInitialStatus(entry.mtime, at),
          lastModified |-> entry.mtime,
          hasPackageJson |-> fileExists(entry.files, "package.json"),
          hasReadme |-> \E r \in {"README.md", "README.txt", "README"} :
                            fileExists(entry.files, r),
          gitInfo |-> Undefined,
          tags |-> getProjectTags(tagFile, projectId) ]

ScanError(message, path) == [error |-> message, path |-> path]

\* Faulty variant: includeHidden also lets the deny-listed names through.
directoriesOf_hiddenBypassesDenyList(listing, hidden) ==
    SelectSeq(listing, LAMBDA entry :
        /\ entry.isDirectory
        /\ (hidden \/ (/\ entry.name \notin IGNORED_DIRECTORIES
                       /\ ~startsWith(entry.name, "."))))

\* The filter of scanDirectory over the listing.
directoriesOf(listing, hidden) ==
    SelectSeq(listing, LAMBDA entry :
        /\ entry.isDirectory
        /\ entry.name \notin IGNORED_DIRECTORIES
        /\ (hidden \/ ~startsWith(entry.name, ".")))

\* What scanProject throws, Undefined if it returns: stat throws (line 181),
\* or one of the promises of line 192 rejects.
scanProjectThrown(dir, statThrows) ==
    IF statThrows THEN FsError("stat")
    ELSE IF "thrown" \in DOMAIN getProjectDescription(dir)
    THEN getProjectDescription(dir).thrown
    ELSE Undefined

\* Faulty variant: an unindicated directory keeps its recency-based status.
scanCallback_noForcedUnknown(dir, statThrows, at) ==
    LET fullPath == join(ProjectsPath, dir.name)
    IN  IF scanProjectThrown(dir, statThrows) # Undefined
        THEN ScanError("Failed to scan project: "
                           \o scanProjectThrown(dir, statThrows).message, fullPath)
        ELSE [project |-> scanProject(fullPath, dir, at)]

\* Faulty variant: the error entry carries the root path instead of the child's path.
scanCallback_rootPathInError(dir, statThrows, at) ==
    LET fullPath == join(ProjectsPath, dir.name)
    IN  IF scanProjectThrown(dir, statThrows) # Undefined
        THEN ScanError("Failed to scan project: "
                           \o scanProjectThrown(dir, statThrows).message, ProjectsPath)
        ELSE IF ~isProjectDirectory(dir.files)
        THEN [project |-> [scanProject(fullPath, dir, at) EXCEPT !.status = "unknown"]]
        ELSE [project |-> scanProject(fullPath, dir, at)]

\* The per-directory callback of scanDirectory (lines 277-300): statThrows
\* says whether stat(dirPath) inside scanProject throws.
scanCallback(dir, statThrows, at) ==
    LET fullPath == join(ProjectsPath, dir.name)
    IN  IF scanProjectThrown(dir, statThrows) # Undefined
        THEN ScanError("Failed to scan project: "
                           \o scanProjectThrown(dir, statThrows).message, fullPath)
        ELSE IF ~isProjectDirectory(dir.files)
        THEN [project |-> [scanProject(fullPath, dir, at) EXCEPT !.status = "unknown"]]
        ELSE [project |-> scanProject(fullPath, dir, at)]

IsProjectResult(r) == "project" \in DOMAIN r
IsErrorResult(r) == "error" \in DOMAIN r

RECURSIVE filterSuccessfulScans(_)
filterSuccessfulScans(rs) ==
    IF rs = <<>> THEN <<>>
    ELSE IF IsProjectResult(Head(rs))
         THEN <<Head(rs).project>> \o filterSuccessfulScans(Tail(rs))
         ELSE filterSuccessfulScans(Tail(rs))

filterScanErrors(rs) == SelectSeq(rs, IsErrorResult)

(***************************************************************************)
(* getGitStatus and the enrichment pass, git-utils.ts.                     *)
(*                                                                         *)
(* What simple-git observes at a path is [check, statusThrows, logThrows,  *)
(* isClean, latest]: check is the outcome of checkIsRepo ("yes", "no" or   *)
(* "throws"), latest the date of log.latest or Undefined.                  *)
(***************************************************************************)
\* The Error a failing simple-git call rejects with.
GitError(call) == [isError |-> TRUE, message |-> "git " \o call \o " failed"]

\* `error instanceof Error ? error.message : 'Unknown error'` (line 104).
errorMessage(error) == IF error.isError THEN error.message ELSE "Unknown error"

\* What the try block of getGitStatus (lines 71-102) completes with: the
\* value it returns, or [thrown |-> e] for the error it throws.  Promise.all
\* over status and log rejects with whichever rejects first.
getGitStatusTry(obs) ==
    IF obs.check = "throws" THEN [thrown |-> GitError("checkIsRepo")]
    ELSE IF obs.check = "no" THEN [error |-> "Not a Git repository"]
    ELSE IF obs.statusThrows /\ ~(obs.logThrows /\ obs.logRejectsFirst)
    THEN [thrown |-> GitError("status")]
    ELSE IF obs.logThrows THEN [thrown |-> GitError("log")]
    ELSE [gitInfo |-> [isDirty |-> ~obs.isClean, lastCommitDate |-> obs.latest]]

\* Faulty variant: no catch, the error of a failing call propagates.
getGitStatus_noCatch(obs) == getGitStatusTry(obs)

\* Faulty variant: the catch drops the message of the error.
getGitStatus_unknownError(obs) ==
    LET r == getGitStatusTry(obs)
    IN  IF "thrown" \in DOMAIN r
        THEN [error |-> "Failed to get Git status: " \o "Unknown error"]
        ELSE r

\* getGitStatus (lines 69-109): the try block, and the catch around it.
getGitStatus(obs) ==
    LET r == getGitStatusTry(obs)
    IN  IF "thrown" \in DOMAIN r
        THEN [error |-> "Failed to get Git status: " \o errorMessage(r.thrown)]
        ELSE r

\* Faulty variant: a failed lookup resets the status to unknown.
enrichCallback_resetOnError(project, result, at) ==
    IF "gitInfo" \in DOMAIN result
    THEN [project EXCEPT !.gitInfo = result.gitInfo,
                         !.status = determineProjectStatus(result.gitInfo, at, at)]
    ELSE [project EXCEPT !.status = "unknown"]

\* The per-project callback of enrichProjectsWithGitInfo (lines 210-223).
\* Line 214 passes `new Date()` as the lastModified argument, and
\* determineProjectStatus reads `new Date()` again as now.
\* A getGitStatus that threw would reject the callback at the await.
enrichCallback(project, result, at) ==
    IF "thrown" \in DOMAIN result
    THEN [rejected |-> result.thrown]
    ELSE IF "gitInfo" \in DOMAIN result
    THEN [project EXCEPT !.gitInfo = result.gitInfo,
                         !.status = determineProjectStatus(result.gitInfo, at, at)]
    ELSE project

(***************************************************************************)
(* The scan-and-enrich pipeline as its callers run it (refreshProjects,    *)
(* getProjects): scanProjects(), filterSuccessfulScans,                    *)
(* enrichProjectsWithGitInfo.                                              *)
(***************************************************************************)
RootStates == {"directory", "missing", "file", "unreadable"}

DirName(i) == "proj-" \o ToString(i)

PipelineFileSets == { {}, {"package.json"} }
PipelineMtimes == { DaysAgo(2), DaysAgo(40) }

ScanFileSets == { {"notes.txt"}, {"package.json"}, {".git", "README.md"} }
ScanMtimes == { DaysAgo(2), DaysAgo(40) }

\* What may stand at position i of the listing: a project directory, a plain
\* file, or a dependency directory of the deny-list.
DefaultManifest == Manifest(JsString("A project"))

EntriesAt(i, fileSets, mtimes) ==
    [name : {DirName(i)}, isDirectory : {TRUE}, files : fileSets, mtime : mtimes,
     manifest : {DefaultManifest}]
    \cup {[name |-> "notes.txt", isDirectory |-> FALSE, files |-> {},
           mtime |-> DaysAgo(2), manifest |-> DefaultManifest],
          [name |-> "node_modules", isDirectory |-> TRUE,
           files |-> {"package.json"}, mtime |-> DaysAgo(2),
           manifest |-> DefaultManifest]}

\* The listings of exactly n entries; a directory holds no name twice.
RECURSIVE ListingsOfLen(_, _, _)
ListingsOfLen(n, fileSets, mtimes) ==
    IF n = 0 THEN { <<>> }
    ELSE { Append(l, e) :
             <<l, e>> \in { p \in ListingsOfLen(n - 1, fileSets, mtimes)
                                  \X EntriesAt(n, fileSets, mtimes) :
                              \A i \in 1..(n - 1) : p[1][i].name # p[2].name } }

Listings(maxLen, fileSets, mtimes) ==
    UNION { ListingsOfLen(n, fileSets, mtimes) : n \in 0..maxLen }

NotRepo == [check |-> "no", statusThrows |-> FALSE, logThrows |-> FALSE,
            logRejectsFirst |-> FALSE, isClean |-> TRUE, latest |-> Undefined]
CheckThrows == [NotRepo EXCEPT !.check = "throws"]
StatusThrows == [NotRepo EXCEPT !.check = "yes", !.statusThrows = TRUE]
LogThrows == [NotRepo EXCEPT !.check = "yes", !.logThrows = TRUE]
Repo(isClean, latest) ==
    [check |-> "yes", statusThrows |-> FALSE, logThrows |-> FALSE,
     logRejectsFirst |-> FALSE, isClean |-> isClean, latest |-> latest]

PipelineObservations ==
    { NotRepo, CheckThrows, StatusThrows, LogThrows,
      Repo(FALSE, DaysAgo(2)),
      Repo(TRUE, Undefined),
      Repo(TRUE, DaysAgo(2)),
      Repo(TRUE, DaysAgo(ActiveDays)),
      Repo(TRUE, DaysAgo(40)) }

\* The options argument of scanDirectory and its destructuring with a
\* default, `const { includeHidden = false } = options` (line 236).
NoOptions == [maxDepth |-> Undefined]
ScanOptionValues ==
    { NoOptions, [includeHidden |-> TRUE], [includeHidden |-> FALSE] }

includeHiddenOption(options) ==
    IF "includeHidden" \in DOMAIN options THEN options.includeHidden ELSE FALSE

PipelineStart(listings) ==
    /\ now = StartTime
    /\ argGitInfo = Undefined
    /\ argLastModified = Date(StartTime)
    /\ outProject = Undefined
    /\ outInitial = Undefined
    /\ root \in RootStates
    /\ entries \in listings
    /\ root \in {"missing", "file"} => entries = <<>>
    /\ includeHidden = includeHiddenOption(NoOptions)
    /\ pc = "start"
    /\ scanOut = <<>>
    /\ results = <<>>
    /\ projects = <<>>
    /\ lookups = <<>>
    /\ enrichOut = <<>>
    /\ enriched = <<>>

InitPipeline(listings) == PipelineStart(listings) /\ ExtIdle

Init == InitPipeline(Listings(MaxDirs, PipelineFileSets, PipelineMtimes))

InitScan == InitPipeline(Listings(MaxScanDirs, ScanFileSets, ScanMtimes))

directories == directoriesOf(entries, includeHidden)

\* Faulty variant: a root that cannot be listed reads as an empty listing.
rootError_unreadableIsEmpty(rootState) ==
    IF rootState = "missing"
    THEN <<ScanError("Cannot access directory", ProjectsPath)>>
    ELSE IF rootState = "file"
    THEN <<ScanError("Path is not a directory", ProjectsPath)>>
    ELSE <<>>

\* What scanDirectory returns for a root that is missing (stat throws), not a
\* directory, or cannot be listed (readdir throws): lines 238-265.
rootError(rootState) ==
    IF rootState = "missing"
    THEN <<ScanError("Cannot access directory", ProjectsPath)>>
    ELSE IF rootState = "file"
    THEN <<ScanError("Path is not a directory", ProjectsPath)>>
    ELSE <<ScanError("Failed to read directory", ProjectsPath)>>

\* scanDirectory up to the fan-out (lines 236-273): the root is validated and
\* listed, and one callback per eligible directory is started.
ScanStart ==
    /\ pc = "start"
    /\ IF root # "directory"
       THEN /\ results' = rootError(root)
            /\ pc' = "scanned"
            /\ UNCHANGED scanOut
       ELSE /\ scanOut' = [i \in 1..Len(directories) |-> Pending]
            /\ pc' = "scanning"
            /\ UNCHANGED results
    /\ UNCHANGED <<extVars, lookups, now, classifyVars, root, entries, includeHidden, projects,
                   enrichOut, enriched>>

\* One callback of the scan's Promise.all completes, in any order.
ScanCallback(i) ==
    /\ pc = "scanning"
    /\ scanOut[i] = Pending
    /\ \E statThrows \in BOOLEAN :
          scanOut' = [scanOut EXCEPT
                         ![i] = scanCallback(directories[i], statThrows, Date(now))]
    /\ UNCHANGED <<extVars, lookups, now, classifyVars, root, entries, includeHidden, pc, results,
                   projects, enrichOut, enriched>>

\* The scan's Promise.all resolves with the outcomes in listing order.
ScanReturn ==
    /\ pc = "scanning"
    /\ \A i \in DOMAIN scanOut : scanOut[i] # Pending
    /\ results' = scanOut
    /\ pc' = "scanned"
    /\ UNCHANGED <<extVars, lookups, now, classifyVars, root, entries, includeHidden, scanOut,
                   projects, enrichOut, enriched>>

\* The caller filters the successful scans and starts the enrichment fan-out.
EnrichStart ==
    /\ pc = "scanned"
    /\ projects' = filterSuccessfulScans(results)
    /\ lookups' = [i \in 1..Len(filterSuccessfulScans(results)) |-> Pending]
    /\ enrichOut' = [i \in 1..Len(filterSuccessfulScans(results)) |-> Pending]
    /\ pc' = "enriching"
    /\ UNCHANGED <<extVars, now, classifyVars, root, entries, includeHidden, scanOut,
                   results, enriched>>

\* One callback of the enrichment's Promise.all completes, in any order.
EnrichCallback(i) ==
    /\ pc = "enriching"
    /\ enrichOut[i] = Pending
    /\ \E obs \in PipelineObservations :
          /\ lookups' = [lookups EXCEPT ![i] = getGitStatus(obs)]
          /\ enrichOut' = [enrichOut EXCEPT
                              ![i] = enrichCallback(projects[i], getGitStatus(obs),
                                                    Date(now))]
    /\ UNCHANGED <<extVars, now, classifyVars, root, entries, includeHidden, pc, scanOut,
                   results, projects, enriched>>

IsRejected(outcome) == "rejected" \in DOMAIN outcome

\* The enrichment's Promise.all resolves with the records in input order once
\* every callback has resolved, and rejects as soon as one has rejected.
EnrichReturn ==
    /\ pc = "enriching"
    /\ IF \E i \in DOMAIN enrichOut : IsRejected(enrichOut[i])
       THEN /\ pc' = "rejected"
            /\ enriched' = enriched
       ELSE /\ \A i \in DOMAIN enrichOut : enrichOut[i] # Pending
            /\ enriched' = enrichOut
            /\ pc' = "done"
    /\ UNCHANGED <<extVars, lookups, now, classifyVars, root, entries, includeHidden,
                   scanOut, results, projects, enrichOut>>

Next ==
    \/ Tick
    \/ ScanStart
    \/ \E i \in DOMAIN scanOut : ScanCallback(i)
    \/ ScanReturn
    \/ EnrichStart
    \/ \E i \in DOMAIN enrichOut : EnrichCallback(i)
    \/ EnrichReturn

Spec == Init /\ [][Next]_vars

\* scanDirectory alone, over larger listings.
NextScan ==
    \/ Tick
    \/ ScanStart
    \/ \E i \in DOMAIN scanOut : ScanCallback(i)
    \/ ScanReturn

SpecScan == InitScan /\ [][NextScan]_vars

(***************************************************************************)
(* scanDirectory over listings that hold hidden and deny-listed names,     *)
(* with and without the includeHidden option.                              *)
(***************************************************************************)
FilterEntry(name, isDirectory) ==
    [name |-> name, isDirectory |-> isDirectory, files |-> {"package.json"},
     mtime |-> DaysAgo(2), manifest |-> DefaultManifest]

FilterEntries ==
    { FilterEntry("app", TRUE), FilterEntry("README.md", FALSE),
      FilterEntry(".config", TRUE), FilterEntry(".env", FALSE),
      FilterEntry(".git", TRUE), FilterEntry("node_modules", TRUE),
      FilterEntry("dist", FALSE), FilterEntry("venv", TRUE),
      FilterEntry(".vscode", TRUE) }

RECURSIVE FilterListingsOfLen(_)
FilterListingsOfLen(n) ==
    IF n = 0 THEN { <<>> }
    ELSE { Append(l, e) :
             <<l, e>> \in { p \in FilterListingsOfLen(n - 1) \X FilterEntries :
                              \A i \in 1..(n - 1) : p[1][i].name # p[2].name } }

InitFilter ==
    /\ now = StartTime
    /\ argGitInfo = Undefined
    /\ argLastModified = Date(StartTime)
    /\ outProject = Undefined
    /\ outInitial = Undefined
    /\ root = "directory"
    /\ entries \in UNION { FilterListingsOfLen(n) : n \in 0..MaxFilterEntries }
    /\ includeHidden \in { includeHiddenOption(o) : o \in ScanOptionValues }
    /\ pc = "start"
    /\ scanOut = <<>>
    /\ results = <<>>
    /\ projects = <<>>
    /\ lookups = <<>>
    /\ enrichOut = <<>>
    /\ enriched = <<>>
    /\ ExtIdle

SpecFilter == InitFilter /\ [][NextScan]_vars

(***************************************************************************)
(* Claims about the classification functions (under SpecClassify).         *)
(***************************************************************************)
\* The age, in ticks, of date d at the instant t.
AgeAt(d, t) == t - getTime(d)

\* C1: with no repoInfo the status is active when the age of lastModified is
\* at most 7 days, stale when it is more than 30 days and unknown otherwise,
\* for determineProjectStatus(undefined, ..) and for determineInitialStatus,
\* and the two agree when evaluated at the same instant.
C1_NoRepoBoundaries ==
    /\ (outProject # Undefined /\ argGitInfo = Undefined) =>
          LET age == AgeAt(argLastModified, outProject.at)
          IN  /\ (outProject.status = "active") <=> (age <= ActiveDays * TicksPerDay)
              /\ (outProject.status = "stale") <=> (age > StaleDays * TicksPerDay)
              /\ outProject.status \in {"active", "stale", "unknown"}
    /\ outInitial # Undefined =>
          LET age == AgeAt(argLastModified, outInitial.at)
          IN  /\ (outInitial.status = "active") <=> (age <= ActiveDays * TicksPerDay)
              /\ (outInitial.status = "stale") <=> (age > StaleDays * TicksPerDay)
              /\ outInitial.status \in {"active", "stale", "unknown"}
    /\ (/\ outProject # Undefined
        /\ outInitial # Undefined
        /\ argGitInfo = Undefined
        /\ outProject.at = outInitial.at) => outProject.status = outInitial.status

\* Both functions were applied to a date exactly 30 days old: not yet stale.
C1_Witness ==
    /\ argGitInfo = Undefined
    /\ outProject # Undefined
    /\ outInitial # Undefined
    /\ AgeAt(argLastModified, outProject.at) = StaleDays * TicksPerDay
    /\ AgeAt(argLastModified, outInitial.at) = StaleDays * TicksPerDay
    /\ outProject.status = "unknown"
    /\ outInitial.status = "unknown"

\* C2: a present repoInfo with isDirty classifies as dirty, whatever
\* lastCommitDate, lastModified and the clock are.
C2_DirtyWins ==
    (outProject # Undefined /\ argGitInfo # Undefined /\ argGitInfo.isDirty) =>
        outProject.status = "dirty"

\* A dirty repository with a recent commit and a recent lastModified was classified.
C2_Witness ==
    /\ outProject # Undefined
    /\ argGitInfo # Undefined
    /\ argGitInfo.isDirty
    /\ argGitInfo.lastCommitDate # Undefined
    /\ AgeAt(argGitInfo.lastCommitDate, outProject.at) <= ActiveDays * TicksPerDay
    /\ AgeAt(argLastModified, outProject.at) <= ActiveDays * TicksPerDay
    /\ outProject.status = "dirty"

\* C3: a present, clean repoInfo classifies by reference = lastCommitDate if
\* set, else lastModified: active up to 7 days, stale beyond 30, clean between.
C3_CleanRecency ==
    (outProject # Undefined /\ argGitInfo # Undefined /\ ~argGitInfo.isDirty) =>
        LET reference == IF argGitInfo.lastCommitDate # Undefined
                         THEN argGitInfo.lastCommitDate
                         ELSE argLastModified
            age == AgeAt(reference, outProject.at)
        IN  /\ (outProject.status = "active") <=> (age <= ActiveDays * TicksPerDay)
            /\ (outProject.status = "stale") <=> (age > StaleDays * TicksPerDay)
            /\ outProject.status \in {"active", "stale", "clean"}

\* A clean repository whose last commit is 15 days old while lastModified is
\* recent was classified clean: the commit date was the reference.
C3_Witness ==
    /\ outProject # Undefined
    /\ argGitInfo # Undefined
    /\ ~argGitInfo.isDirty
    /\ argGitInfo.lastCommitDate # Undefined
    /\ AgeAt(argGitInfo.lastCommitDate, outProject.at) > ActiveDays * TicksPerDay
    /\ AgeAt(argGitInfo.lastCommitDate, outProject.at) <= StaleDays * TicksPerDay
    /\ AgeAt(argLastModified, outProject.at) <= ActiveDays * TicksPerDay
    /\ outProject.status = "clean"

(***************************************************************************)
(* Claims about the scanner and the enrichment pass.                       *)
(***************************************************************************)
\* The classification of the specification, section 4.2.
Classify(repoInfo, lastModified, t) ==
    IF repoInfo = Undefined
    THEN IF t - getTime(lastModified) <= ActiveDays * TicksPerDay THEN "active"
         ELSE IF t - getTime(lastModified) > StaleDays * TicksPerDay THEN "stale"
         ELSE "unknown"
    ELSE IF repoInfo.isDirty THEN "dirty"
    ELSE LET reference == IF repoInfo.lastCommitDate # Undefined
                          THEN repoInfo.lastCommitDate
                          ELSE lastModified
         IN  IF t - getTime(reference) <= ActiveDays * TicksPerDay THEN "active"
             ELSE IF t - getTime(reference) > StaleDays * TicksPerDay THEN "stale"
             ELSE "clean"

\* The instants the clock has shown so far.
ClockSoFar == StartTime..now

\* The entry of the listing a record was built from (names are unique).
EntryOf(record) == CHOOSE e \in {entries[k] : k \in DOMAIN entries} :
                       e.name = record.name

\* C4: a record for which getStatus returned a RepoInfo carries that RepoInfo
\* and the section-4.2 classification of (that RepoInfo, the record's own
\* lastModified) at an instant of the pass.
C4_EnrichedStatusDerivable ==
    \A i \in DOMAIN enrichOut :
        (enrichOut[i] # Pending /\ enrichOut[i].gitInfo # Undefined) =>
            /\ enrichOut[i].lastModified = projects[i].lastModified
            /\ \E t \in ClockSoFar :
                  enrichOut[i].status =
                      Classify(enrichOut[i].gitInfo, projects[i].lastModified, t)

\* C5: two records of one pass with identical repoInfo and lastModified
\* receive the same status.
C5_OnePassOneInstant ==
    pc = "done" =>
        \A i, j \in DOMAIN enriched :
            (/\ enriched[i].gitInfo # Undefined
             /\ enriched[i].gitInfo = enriched[j].gitInfo
             /\ enriched[i].lastModified = enriched[j].lastModified) =>
                enriched[i].status = enriched[j].status

\* C6: a record whose lookup returned an error (it carries no gitInfo) is
\* returned exactly as the scanner built it, whichever error it was.
C6_ErrorLeavesRecordUnchanged ==
    /\ \A i \in DOMAIN enrichOut :
          (enrichOut[i] # Pending /\ enrichOut[i].gitInfo = Undefined) =>
              enrichOut[i] = projects[i]
    /\ pc = "done" =>
          /\ Len(enriched) = Len(projects)
          /\ \A i \in DOMAIN enriched :
                enriched[i].gitInfo = Undefined => enriched[i] = projects[i]

\* The pass returned a record without gitInfo that keeps the scanner's stale.
C6_Witness ==
    /\ pc = "done"
    /\ \E i \in DOMAIN enriched :
          /\ enriched[i].gitInfo = Undefined
          /\ enriched[i].status = "stale"
          /\ enriched[i] = projects[i]

\* C7: a directory without any indicator file is returned as a record whose
\* status is unknown whatever its age; a directory with an indicator gets the
\* recency-based status of its mtime.
C7_UnindicatedIsUnknown ==
    (pc = "scanned" /\ root = "directory") =>
        /\ Len(results) = Len(directories)
        /\ \A i \in DOMAIN results :
              IsProjectResult(results[i]) =>
                  /\ results[i].project.name = directories[i].name
                  /\ IF \E f \in projectIndicators : f \in directories[i].files
                     THEN \E t \in ClockSoFar :
                              results[i].project.status =
                                  Classify(Undefined, directories[i].mtime, t)
                     ELSE results[i].project.status = "unknown"

\* The scan returned an unindicated directory modified 2 days ago as unknown,
\* an unindicated one modified 40 days ago as unknown, and an indicated one
\* modified 40 days ago as stale.
C7_Witness ==
    /\ pc = "scanned"
    /\ root = "directory"
    /\ \E i, j, k \in DOMAIN results :
          /\ IsProjectResult(results[i])
          /\ IsProjectResult(results[j])
          /\ IsProjectResult(results[k])
          /\ directories[i].files = {"notes.txt"}
          /\ directories[i].mtime = DaysAgo(2)
          /\ results[i].project.status = "unknown"
          /\ directories[j].files = {"notes.txt"}
          /\ directories[j].mtime = DaysAgo(40)
          /\ results[j].project.status = "unknown"
          /\ directories[k].files = {"package.json"}
          /\ directories[k].mtime = DaysAgo(40)
          /\ results[k].project.status = "stale"

\* C8: after scan, filter and enrichment, a directory with package.json,
\* mtime 2 days old and a clean repository whose last commit is 2 days old is
\* active, and a directory without any indicator is unknown whatever the
\* repository check reported for it.
C8_EndToEnd ==
    pc = "done" =>
        \A i \in DOMAIN enriched :
            LET e == EntryOf(enriched[i])
            IN  /\ (/\ "package.json" \in e.files
                    /\ e.mtime = DaysAgo(2)
                    /\ enriched[i].gitInfo =
                           [isDirty |-> FALSE, lastCommitDate |-> DaysAgo(2)])
                       => enriched[i].status = "active"
                /\ (e.files \cap projectIndicators = {})
                       => enriched[i].status = "unknown"

\* The path a scan result is about.
ResultPath(r) == IF IsProjectResult(r) THEN r.project.path ELSE r.path

\* C9: with a valid root, scanDirectory returns one entry per eligible child
\* directory in listing order; each is that child's record or an error
\* carrying that child's full path, so a failing child costs no sibling.
C9_PerDirectoryIsolation ==
    (pc = "scanned" /\ root = "directory") =>
        /\ Len(results) = Len(directories)
        /\ \A i \in DOMAIN results :
              /\ IsProjectResult(results[i]) # IsErrorResult(results[i])
              /\ ResultPath(results[i]) = join(ProjectsPath, directories[i].name)
              /\ IsProjectResult(results[i]) =>
                    /\ results[i].project.name = directories[i].name
                    /\ results[i].project.lastModified = directories[i].mtime
        /\ Len(filterSuccessfulScans(results)) + Len(filterScanErrors(results))
               = Len(results)

\* Three sibling directories were scanned, the second failed: two records
\* and one error carrying the second directory's path.
C9_Witness ==
    /\ pc = "scanned"
    /\ root = "directory"
    /\ Len(directories) = 3
    /\ Len(results) = 3
    /\ IsProjectResult(results[1])
    /\ IsErrorResult(results[2])
    /\ results[2].path = join(ProjectsPath, directories[2].name)
    /\ IsProjectResult(results[3])
    /\ Len(filterSuccessfulScans(results)) = 2
    /\ Len(filterScanErrors(results)) = 1

\* C10: a root that is missing, not a directory or not listable yields
\* exactly one entry, an error carrying the root path, and no record; no
\* child directory is scanned.
C10_RootErrorAborts ==
    (pc = "scanned" /\ root # "directory") =>
        /\ Len(results) = 1
        /\ IsErrorResult(results[1])
        /\ ~IsProjectResult(results[1])
        /\ results[1].path = ProjectsPath
        /\ filterSuccessfulScans(results) = <<>>
        /\ scanOut = <<>>

\* The scan of an unlistable root that holds eligible directories returned.
C10_Witness ==
    /\ pc = "scanned"
    /\ root = "unreadable"
    /\ Len(directories) >= 1
    /\ Len(results) = 1


\* C11: scanDirectory produces an entry for a child of the root exactly when
\* the child is a directory, its name is not one of the thirteen deny-listed
\* names, and includeHidden is set or the name does not start with a dot;
\* includeHidden is false when the option is not given.
C11_DenyList ==
    { "node_modules", ".git", ".next", ".cache", ".pnpm", "dist", "build",
      "coverage", "__pycache__", ".venv", "venv", ".idea", ".vscode" }

C11_Eligible(e) ==
    /\ e.isDirectory
    /\ e.name \notin C11_DenyList
    /\ (includeHidden \/ SubSeq(e.name, 1, 1) # ".")

C11_EligibilityFilter ==
    /\ includeHiddenOption(NoOptions) = FALSE
    /\ (pc = "scanned" /\ root = "directory") =>
          /\ { ResultPath(results[i]) : i \in DOMAIN results }
                 = { join(ProjectsPath, entries[k].name) :
                        k \in { k \in DOMAIN entries : C11_Eligible(entries[k]) } }
          /\ Len(results)
                 = Cardinality({ k \in DOMAIN entries : C11_Eligible(entries[k]) })

\* With includeHidden set, a listing of .config and .git was scanned: the
\* hidden directory has an entry, the deny-listed one has none.
C11_Witness ==
    /\ pc = "scanned"
    /\ includeHidden
    /\ { entries[k].name : k \in DOMAIN entries } = {".config", ".git"}
    /\ { ResultPath(results[i]) : i \in DOMAIN results }
           = { join(ProjectsPath, ".config") }


-----------------------------------------------------------------------------
\* One getGitStatus call, step by step (git-utils.ts lines 69-109).

\* The pipeline's parts standing idle, for the specifications of single calls.
CoreIdle ==
    /\ now = StartTime
    /\ argGitInfo = Undefined
    /\ argLastModified = Undefined
    /\ outProject = Undefined
    /\ outInitial = Undefined
    /\ root = "directory"
    /\ entries = <<>>
    /\ includeHidden = FALSE
    /\ pc = "idle"
    /\ scanOut = <<>>
    /\ results = <<>>
    /\ projects = <<>>
    /\ lookups = <<>>
    /\ enrichOut = <<>>
    /\ enriched = <<>>

\* Every outcome of the three simple-git calls, and of the race of the two
\* run under Promise.all.
GitObservations ==
    [check : {"yes", "no", "throws"}, statusThrows : BOOLEAN,
     logThrows : BOOLEAN, logRejectsFirst : BOOLEAN, isClean : BOOLEAN,
     latest : {Undefined} \cup BoundaryDates]

InitGit ==
    /\ CoreIdle
    /\ IdleExcept("git")
    /\ gitObs \in GitObservations
    /\ gitPc = "start"
    /\ gitCalls = {}
    /\ gitResult = Undefined

\* Lines 71-78: checkIsRepo; a negative or failing check ends the call.
GitCheckIsRepo ==
    /\ gitPc = "start"
    /\ gitCalls' = gitCalls \cup {"checkIsRepo"}
    /\ IF gitObs.check = "yes"
       THEN /\ gitPc' = "checked"
            /\ gitResult' = gitResult
       ELSE /\ gitPc' = "returned"
            /\ gitResult' = getGitStatus(gitObs)
    /\ UNCHANGED <<gitObs, coreVars, notGitVars>>

\* Lines 81-108: status and log under Promise.all, then the result.
GitStatusAndLog ==
    /\ gitPc = "checked"
    /\ gitCalls' = gitCalls \cup {"status", "log"}
    /\ gitPc' = "returned"
    /\ gitResult' = getGitStatus(gitObs)
    /\ UNCHANGED <<gitObs, coreVars, notGitVars>>

NextGit == GitCheckIsRepo \/ GitStatusAndLog

SpecGit == InitGit /\ [][NextGit]_vars

EndsWith(str, suffix) ==
    /\ Len(str) >= Len(suffix)
    /\ SubSeq(str, Len(str) - Len(suffix) + 1, Len(str)) = suffix

\* The calls of an observation that fail.
FailingCalls(obs) ==
    IF obs.check = "throws" THEN {"checkIsRepo"}
    ELSE IF obs.check = "no" THEN {}
    ELSE {c \in {"status", "log"} :
            \/ c = "status" /\ obs.statusThrows
            \/ c = "log" /\ obs.logThrows}

-----------------------------------------------------------------------------
\* C12: a failing lookup never rejects the enrichment batch.  No callback
\* rejects and the batch never rejects; once every callback has completed, in
\* whatever order, the batch can resolve; and what it resolves with has the
\* length of the input and at each index the path of the input record.
C12_BatchNeverRejects ==
    /\ pc # "rejected"
    /\ \A i \in DOMAIN enrichOut : ~IsRejected(enrichOut[i])
    /\ (pc = "enriching" /\ \A i \in DOMAIN enrichOut : enrichOut[i] # Pending)
          => ENABLED EnrichReturn
    /\ pc = "done" =>
          /\ Len(enriched) = Len(projects)
          /\ \A i \in DOMAIN projects : enriched[i].path = projects[i].path

\* C12 witnesses: a resolved batch of two in which the first lookup failed on
\* a throwing git call and the second succeeded.
C12_Witness ==
    /\ pc = "done"
    /\ Len(enriched) = 2
    /\ lookups[1] = [error |-> "Failed to get Git status: git status failed"]
    /\ "gitInfo" \in DOMAIN lookups[2]
    /\ enriched[1].path = projects[1].path
    /\ enriched[2].path = projects[2].path


-----------------------------------------------------------------------------
\* The tag store (tag-storage.ts).  The file is missing, unreadable (its
\* content is not JSON, or readFile fails), or holds a JSON object that maps
\* project ids to arrays of tags.

MaxTags == 2

TagIds == {"app", "api", "constructor"}
Tags == {"work", "web"}

RECURSIVE TagListsOfLen(_)
TagListsOfLen(n) ==
    IF n = 0 THEN {<<>>}
    ELSE {Append(l, t) : l \in TagListsOfLen(n - 1), t \in Tags}

TagLists == UNION {TagListsOfLen(n) : n \in 0..MaxTags}

IsArray(value) == "array" \in DOMAIN value

Includes(list, tag) == \E i \in DOMAIN list : list[i] = tag

RECURSIVE Without(_, _)
\* currentTags.filter(t => t !== tag) (line 200).
Without(list, tag) ==
    IF list = <<>> THEN <<>>
    ELSE IF list[1] = tag THEN Without(Tail(list), tag)
    ELSE <<list[1]>> \o Without(Tail(list), tag)

\* Faulty variant: an empty list is stored like any other.
updateTags_keepEmpty(allTags, projectId, tags) ==
    [k \in DOMAIN allTags \cup {projectId} |->
        IF k = projectId THEN tags ELSE allTags[k]]

\* Lines 99-104 of saveProjectTags: delete the own property, or assign it.
updateTags(allTags, projectId, tags) ==
    IF Len(tags) = 0
    THEN [k \in DOMAIN allTags \ {projectId} |-> allTags[k]]
    ELSE [k \in DOMAIN allTags \cup {projectId} |->
             IF k = projectId THEN tags ELSE allTags[k]]

\* The calls a caller can make.
GetCalls == {[NoCall EXCEPT !.op = "get", !.id = id, !.pc = "start"] : id \in TagIds}
SaveCalls ==
    {[NoCall EXCEPT !.op = "save", !.id = id, !.tags = tags, !.pc = "saving"] :
        id \in TagIds, tags \in TagLists}
AddCalls ==
    {[NoCall EXCEPT !.op = "add", !.id = id, !.tag = tag, !.pc = "start"] :
        id \in TagIds, tag \in Tags}
RemoveCalls ==
    {[NoCall EXCEPT !.op = "remove", !.id = id, !.tag = tag, !.pc = "start"] :
        id \in TagIds, tag \in Tags}
MutationCalls == SaveCalls \cup AddCalls \cup RemoveCalls

\* The tag files a run starts from.
InitialTagFiles ==
    { [kind |-> "missing"], [kind |-> "unreadable"], JsonFile(EmptyObject),
      JsonFile([k \in {"app"} |-> <<"work">>]) }

\* A caller enters one of the exported functions.
TagCall(c) ==
    /\ tagCallers[c].pc \in {"idle", "done", "threw"}
    /\ \E call \in GetCalls \cup MutationCalls :
          tagCallers' = [tagCallers EXCEPT ![c] = call]
    /\ tagLastWriter' = 0
    /\ UNCHANGED <<tagFile, coreVars, notTagVars>>

\* getProjectTags called from outside (lines 126-129).
TagGet(c) ==
    /\ tagCallers[c].op = "get"
    /\ tagCallers[c].pc = "start"
    /\ tagCallers' = [tagCallers EXCEPT
                         ![c].currentTags = getProjectTags(tagFile, tagCallers[c].id),
                         ![c].pc = "done"]
    /\ UNCHANGED <<tagFile, tagLastWriter, coreVars, notTagVars>>

\* addTagToProject up to its call of saveProjectTags (lines 175-179).
\* currentTags.includes throws a TypeError when currentTags is no array.
TagAddRead(c) ==
    /\ tagCallers[c].op = "add"
    /\ tagCallers[c].pc = "start"
    /\ LET currentTags == getProjectTags(tagFile, tagCallers[c].id)
           tag == tagCallers[c].tag
       IN  tagCallers' = [tagCallers EXCEPT
               ![c].currentTags = currentTags,
               ![c].tags = IF IsArray(currentTags)
                           THEN Append(currentTags.array, tag) ELSE <<>>,
               ![c].pc = IF ~IsArray(currentTags) THEN "threw"
                         ELSE IF Includes(currentTags.array, tag) THEN "done"
                         ELSE "saving"]
    /\ UNCHANGED <<tagFile, tagLastWriter, coreVars, notTagVars>>

\* removeTagFromProject up to its call of saveProjectTags (lines 199-202).
\* currentTags.filter throws a TypeError when currentTags is no array.
TagRemoveRead(c) ==
    /\ tagCallers[c].op = "remove"
    /\ tagCallers[c].pc = "start"
    /\ LET currentTags == getProjectTags(tagFile, tagCallers[c].id)
           tag == tagCallers[c].tag
       IN  tagCallers' = [tagCallers EXCEPT
               ![c].currentTags = currentTags,
               ![c].tags = IF IsArray(currentTags)
                           THEN Without(currentTags.array, tag) ELSE <<>>,
               ![c].pc = IF IsArray(currentTags) THEN "saving" ELSE "threw"]
    /\ UNCHANGED <<tagFile, tagLastWriter, coreVars, notTagVars>>

\* saveProjectTags, lines 93-96: the directory is ensured and the whole
\* mapping is loaded.
TagSaveLoad(c) ==
    /\ tagCallers[c].pc = "saving"
    /\ tagCallers' = [tagCallers EXCEPT
                         ![c].allTags = loadProjectTags(tagFile),
                         ![c].pc = "loaded"]
    /\ UNCHANGED <<tagFile, tagLastWriter, coreVars, notTagVars>>

\* Faulty variant: the load and the write are one step, as under a lock.
TagSaveWrite_locked(c) ==
    /\ tagCallers[c].pc = "loaded"
    /\ tagFile' = JsonFile(updateTags(loadProjectTags(tagFile), tagCallers[c].id,
                                      tagCallers[c].tags))
    /\ tagCallers' = [tagCallers EXCEPT ![c].pc = "done"]
    /\ tagLastWriter' = c
    /\ UNCHANGED <<coreVars, notTagVars>>

\* saveProjectTags, lines 99-107: the loaded mapping with the one key changed
\* replaces the whole file.
TagSaveWrite(c) ==
    /\ tagCallers[c].pc = "loaded"
    /\ tagFile' = JsonFile(updateTags(tagCallers[c].allTags, tagCallers[c].id,
                                      tagCallers[c].tags))
    /\ tagCallers' = [tagCallers EXCEPT ![c].pc = "done"]
    /\ tagLastWriter' = c
    /\ UNCHANGED <<coreVars, notTagVars>>

\* saveProjectTags, lines 107-111: writeFile fails and the error is rethrown.
TagSaveWriteFails(c) ==
    /\ tagCallers[c].pc = "loaded"
    /\ tagCallers' = [tagCallers EXCEPT ![c].pc = "threw"]
    /\ UNCHANGED <<tagFile, tagLastWriter, coreVars, notTagVars>>

\* Two callers, each inside one mutation, their steps interleaved freely.
InitTagRace ==
    /\ CoreIdle
    /\ IdleExcept("tags")
    /\ tagFile \in InitialTagFiles
    /\ tagCallers \in [Callers -> MutationCalls]
    /\ tagLastWriter = 0

NextTagRace ==
    \E c \in Callers :
        \/ TagAddRead(c)
        \/ TagRemoveRead(c)
        \/ TagSaveLoad(c)
        \/ TagSaveWrite(c)
        \/ TagSaveWriteFails(c)

SpecTagRace == InitTagRace /\ [][NextTagRace]_vars

\* One caller, one call after the other.
InitTagStore ==
    /\ CoreIdle
    /\ IdleExcept("tags")
    /\ tagFile \in InitialTagFiles
    /\ tagCallers = [c \in Callers |-> NoCall]
    /\ tagLastWriter = 0

NextTagStore ==
    \/ TagCall(1)
    \/ TagGet(1)
    \/ TagAddRead(1)
    \/ TagRemoveRead(1)
    \/ TagSaveLoad(1)
    \/ TagSaveWrite(1)
    \/ TagSaveWriteFails(1)

SpecTagStore == InitTagStore /\ [][NextTagStore]_vars

\* C14: the mutations are read-then-write on the whole file without a lock.
\* Whatever the other caller wrote in between, the file after a write is the
\* mapping its writer loaded earlier with the writer's own key set (or, for
\* an empty list, removed): every other key holds what the writer loaded.
C14_WriteReplacesFileBySnapshot ==
    tagLastWriter # 0 =>
        LET w == tagCallers[tagLastWriter]
            stored == loadProjectTags(tagFile)
        IN  /\ tagFile.kind = "json"
            /\ \A k \in TagIds \ {w.id} :
                  /\ k \in DOMAIN stored <=> k \in DOMAIN w.allTags
                  /\ k \in DOMAIN stored => stored[k] = w.allTags[k]
            /\ w.id \in DOMAIN stored <=> w.tags # <<>>
            /\ w.id \in DOMAIN stored => stored[w.id] = w.tags

\* C14 witnesses a lost update: two additions for different projects have
\* both completed their writes and the stored mapping lacks the first one.
C14_Witness ==
    /\ tagCallers[1] = [op |-> "add", id |-> "app", tag |-> "work",
                        tags |-> <<"work">>, pc |-> "done",
                        currentTags |-> JsArray(<<>>), allTags |-> EmptyObject]
    /\ tagCallers[2].op = "add"
    /\ tagCallers[2].id = "api"
    /\ tagCallers[2].pc = "done"
    /\ tagLastWriter = 2
    /\ loadProjectTags(tagFile) = [k \in {"api"} |-> <<"web">>]


\* C15: the tag store contract with a single caller.  After a saveProjectTags
\* that succeeded, getProjectTags of the same id gives exactly the saved list
\* and the stored mapping has the id as a key iff the list is non-empty; a
\* getProjectTags of an id that has no entry gives the empty list; a missing
\* or unreadable file reads as the empty mapping.
C15_TagStoreContract ==
    LET call == tagCallers[1]
        stored == loadProjectTags(tagFile)
    IN  /\ (call.op = "save" /\ call.pc = "done") =>
              /\ getProjectTags(tagFile, call.id) = JsArray(call.tags)
              /\ call.id \in DOMAIN stored <=> call.tags # <<>>
        /\ (call.op = "get" /\ call.pc = "done" /\ call.id \notin DOMAIN stored) =>
              call.currentTags = JsArray(<<>>)
        /\ tagFile.kind \in {"missing", "unreadable"} => stored = EmptyObject


-----------------------------------------------------------------------------
\* createProjectId (project-scanner.ts lines 121-127), on strings.

MaxNameLen == 3

\* Directory names: every string over NameChars up to MaxNameLen, and the
\* names the specification quotes.
NameChars == {"A", "p", "1", "_", "-", " ", "!"}

RECURSIVE NamesOfLen(_)
NamesOfLen(n) ==
    IF n = 0 THEN {""}
    ELSE {str \o c : str \in NamesOfLen(n - 1), c \in NameChars}

QuotedNames == {"My App", "my_app", "My Cool App!"}

Names == QuotedNames \cup UNION {NamesOfLen(n) : n \in 1..MaxNameLen}

InitSlug ==
    /\ CoreIdle
    /\ IdleExcept("slug")
    /\ slugName \in Names
    /\ slugPc = "start"
    /\ slugId = ""
    /\ slugIdAgain = ""
    /\ slugIdOfId = ""

\* The scanner derives the id of a directory (line 185).
SlugCall ==
    /\ slugPc = "start"
    /\ slugId' = createProjectId(slugName)
    /\ slugPc' = "called"
    /\ UNCHANGED <<slugName, slugIdAgain, slugIdOfId, coreVars, notSlugVars>>

\* A later scan derives the id of the same directory again.
SlugCallAgain ==
    /\ slugPc = "called"
    /\ slugIdAgain' = createProjectId(slugName)
    /\ slugPc' = "recalled"
    /\ UNCHANGED <<slugName, slugId, slugIdOfId, coreVars, notSlugVars>>

\* The id is itself used as a name.
SlugCallOnId ==
    /\ slugPc = "recalled"
    /\ slugIdOfId' = createProjectId(slugId)
    /\ slugPc' = "done"
    /\ UNCHANGED <<slugName, slugId, slugIdAgain, coreVars, notSlugVars>>

NextSlug == SlugCall \/ SlugCallAgain \/ SlugCallOnId

SpecSlug == InitSlug /\ [][NextSlug]_vars

\* C16: the id is a deterministic function of the name, and deriving the id
\* of an id gives that id back.
C16_Idempotent ==
    /\ slugPc \in {"recalled", "done"} => slugIdAgain = slugId
    /\ slugPc = "done" => slugIdOfId = slugId

\* C16 witnesses a name that the derivation changes and whose id it keeps.
C16_Witness ==
    /\ slugPc = "done"
    /\ slugName = "!A-"
    /\ slugId = "a"
    /\ slugIdOfId = "a"

RECURSIVE JoinedRuns(_, _, _)
\* The maximal runs of characters of `keep` in str, joined by single hyphens;
\* run is the run being read.
JoinedRuns(str, keep, run) ==
    IF str = "" THEN run
    ELSE IF HasChar(keep, CharAt(str, 1))
    THEN JoinedRuns(Rest(str), keep, run \o CharAt(str, 1))
    ELSE LET rest == JoinedRuns(Rest(str), keep, "")
         IN  IF run = "" THEN rest
             ELSE IF rest = "" THEN run
             ELSE run \o "-" \o rest

Alphanumerics == LowerCaseLetters \o Digits

\* C17 as stated: the id is the lowercased name with every run of
\* non-alphanumeric characters collapsed to one hyphen and the ends trimmed,
\* so that "My App" and "my_app" both give my-app and "My Cool App!" gives
\* my-cool-app.
C17_RunsOfNonAlphanumerics ==
    slugPc # "start" =>
        /\ slugId = JoinedRuns(toLowerCase(slugName), Alphanumerics, "")
        /\ slugName \in {"My App", "my_app"} => slugId = "my-app"
        /\ slugName = "My Cool App!" => slugId = "my-cool-app"

\* C17 amended: the underscore counts as a character of the id.  The id is
\* the lowercased name with every run of characters other than a-z, 0-9 and
\* '_' collapsed to one hyphen and the ends trimmed: "My App" gives my-app,
\* "My Cool App!" gives my-cool-app, and "my_app" gives my_app.
C17_RunsOfNonIdChars ==
    slugPc # "start" =>
        /\ slugId = JoinedRuns(toLowerCase(slugName), Alphanumerics \o "_", "")
        /\ slugName = "My App" => slugId = "my-app"
        /\ slugName = "My Cool App!" => slugId = "my-cool-app"
        /\ slugName = "my_app" => slugId = "my_app"

\* C17 witnesses the quoted name with spaces and a trailing bang.
C17_Witness ==
    /\ slugPc = "called"
    /\ slugName = "My Cool App!"
    /\ slugId = "my-cool-app"


-----------------------------------------------------------------------------
\* getGitRemoteUrl (git-utils.ts lines 254-292).

MaxRemotes == 2

\* Index of the first occurrence of the character c in str, 0 if none.
IndexOf(str, c) ==
    IF HasChar(str, c)
    THEN CHOOSE i \in 1..Len(str) :
            /\ CharAt(str, i) = c
            /\ \A j \in 1..(i - 1) : CharAt(str, j) # c
    ELSE 0

\* .replace(/^git@([^:]+):/, 'https://$1/'): the host is what stands between
\* git@ and the first colon, and it is not empty.
replaceGitAtHost(url) ==
    LET colon == IndexOf(url, ":")
    IN  IF startsWith(url, "git@") /\ colon >= 6
        THEN "https://" \o SubSeq(url, 5, colon - 1) \o "/"
                 \o SubSeq(url, colon + 1, Len(url))
        ELSE url

\* .replace(/\.git$/, '')
stripDotGit(url) ==
    IF EndsWith(url, ".git") THEN SubSeq(url, 1, Len(url) - 4) ELSE url

\* Lines 272-285: the conversion of the fetch URL.
normalizeRemoteUrl(remoteUrl) ==
    IF startsWith(remoteUrl, "git@")
    THEN stripDotGit(replaceGitAtHost(remoteUrl))
    ELSE IF startsWith(remoteUrl, "https://") \/ startsWith(remoteUrl, "http://")
    THEN stripDotGit(remoteUrl)
    ELSE remoteUrl

\* Faulty variant: the first remote is taken whatever its name.
findOrigin_firstOnly(remotes) ==
    IF remotes = <<>> THEN Undefined ELSE remotes[1]

\* Line 268: remotes.find(r => r.name === 'origin') || remotes[0].
findOrigin(remotes) ==
    IF \E i \in DOMAIN remotes : remotes[i].name = "origin"
    THEN remotes[CHOOSE i \in DOMAIN remotes :
                    /\ remotes[i].name = "origin"
                    /\ \A j \in 1..(i - 1) : remotes[j].name # "origin"]
    ELSE IF remotes = <<>> THEN Undefined
    ELSE remotes[1]

\* The try block of getGitRemoteUrl (lines 255-287) and its catch (288-291).
getGitRemoteUrl(obs) ==
    IF obs.check = "throws"
    THEN [url |-> Null,
          error |-> "Failed to get remote URL: " \o GitError("checkIsRepo").message]
    ELSE IF obs.check = "no"
    THEN [url |-> Null, error |-> "Not a Git repository"]
    ELSE IF obs.remotesThrow
    THEN [url |-> Null,
          error |-> "Failed to get remote URL: " \o GitError("getRemotes").message]
    ELSE LET origin == findOrigin(obs.remotes)
         IN  IF origin = Undefined \/ origin.fetch = ""
             THEN [url |-> Null, error |-> "No remote found"]
             ELSE [url |-> JsString(normalizeRemoteUrl(origin.fetch))]

RemoteNames == <<"origin", "upstream", "fork">>

\* Fetch URLs: none, scp-style with the user git and with another user, with
\* and without the .git suffix, https and http with one and two suffixes, and
\* an ssh:// URL.
FetchUrls ==
    { "",
      "git@github.com:owner/repo.git",
      "git@github.com:owner/repo",
      "deploy@example.com:owner/repo.git",
      "https://github.com/owner/repo.git",
      "https://github.com/owner/repo",
      "http://example.com/repo.git.git",
      "ssh://git@example.com/owner/repo.git" }

RemoteRecord(name, fetch) == [name |-> name, fetch |-> fetch]

RECURSIVE RemoteListsOfLen(_)
RemoteListsOfLen(n) ==
    IF n = 0 THEN {<<>>}
    ELSE {Append(l, RemoteRecord(RemoteNames[i], u)) :
              l \in RemoteListsOfLen(n - 1),
              i \in 1..Len(RemoteNames), u \in FetchUrls}

DistinctNames(remotes) ==
    \A i, j \in DOMAIN remotes : i # j => remotes[i].name # remotes[j].name

RemoteLists ==
    {l \in UNION {RemoteListsOfLen(n) : n \in 0..MaxRemotes} : DistinctNames(l)}

RemoteObservations ==
    [check : {"yes", "no", "throws"}, remotesThrow : BOOLEAN,
     remotes : RemoteLists]

InitRemote ==
    /\ CoreIdle
    /\ IdleExcept("remote")
    /\ remoteObs \in RemoteObservations
    /\ remotePc = "start"
    /\ remoteResult = Undefined

\* Lines 258-262: checkIsRepo; a negative or failing check ends the call.
RemoteCheckIsRepo ==
    /\ remotePc = "start"
    /\ IF remoteObs.check = "yes"
       THEN /\ remotePc' = "checked"
            /\ remoteResult' = remoteResult
       ELSE /\ remotePc' = "returned"
            /\ remoteResult' = getGitRemoteUrl(remoteObs)
    /\ UNCHANGED <<remoteObs, coreVars, notRemoteVars>>

\* Lines 265-291: getRemotes, the choice of the remote, the conversion.
RemoteGetRemotes ==
    /\ remotePc = "checked"
    /\ remotePc' = "returned"
    /\ remoteResult' = getGitRemoteUrl(remoteObs)
    /\ UNCHANGED <<remoteObs, coreVars, notRemoteVars>>

NextRemote == RemoteCheckIsRepo \/ RemoteGetRemotes

SpecRemote == InitRemote /\ [][NextRemote]_vars

\* The remote the claims speak of: the one named origin, else the first.
OriginOrFirst(remotes) ==
    IF \E i \in DOMAIN remotes : remotes[i].name = "origin"
    THEN CHOOSE r \in {remotes[i] : i \in DOMAIN remotes} : r.name = "origin"
    ELSE remotes[1]

\* A URL of the form user@host:path.git, with no scheme in front.
IsScpStyle(url) ==
    /\ IndexOf(url, "@") > 1
    /\ IndexOf(url, ":") > IndexOf(url, "@") + 1
    /\ EndsWith(url, ".git")
    /\ Len(url) - 4 > IndexOf(url, ":")

ScpAsHttps(url) ==
    "https://" \o SubSeq(url, IndexOf(url, "@") + 1, IndexOf(url, ":") - 1)
        \o "/" \o SubSeq(url, IndexOf(url, ":") + 1, Len(url) - 4)

\* C18: the fetch URL of the selected remote is normalized: user@host:path.git
\* becomes https://host/path for any user and host, and an https URL loses one
\* trailing .git.
C18_NormalizesSshAndHttps ==
    (remotePc = "returned" /\ remoteResult.url # Null) =>
        LET fetch == OriginOrFirst(remoteObs.remotes).fetch
        IN  /\ IsScpStyle(fetch) => remoteResult.url = JsString(ScpAsHttps(fetch))
            /\ (startsWith(fetch, "https://") /\ EndsWith(fetch, ".git")) =>
                  remoteResult.url = JsString(SubSeq(fetch, 1, Len(fetch) - 4))
            /\ (startsWith(fetch, "https://") /\ ~EndsWith(fetch, ".git")) =>
                  remoteResult.url = JsString(fetch)

\* The cases in which no URL can be given.
NoUrlCase(obs) ==
    \/ obs.check # "yes"
    \/ obs.remotesThrow
    \/ obs.remotes = <<>>
    \/ OriginOrFirst(obs.remotes).fetch = ""

\* C19: the remote named origin is used when there is one and the first
\* remote otherwise; when the path is no repository, a call fails, there is no
\* remote or the remote has no fetch URL, the result is url = null with a
\* non-empty error; otherwise it is the converted fetch URL of that remote
\* without an error.
C19_OriginElseFirst ==
    remotePc = "returned" =>
        IF NoUrlCase(remoteObs)
        THEN /\ remoteResult.url = Null
             /\ "error" \in DOMAIN remoteResult
             /\ remoteResult.error # ""
        ELSE /\ remoteResult.url =
                    JsString(normalizeRemoteUrl(OriginOrFirst(remoteObs.remotes).fetch))
             /\ "error" \notin DOMAIN remoteResult

\* C19 witnesses a call that took origin although it is the second remote.
C19_Witness ==
    /\ remotePc = "returned"
    /\ remoteObs.check = "yes"
    /\ ~remoteObs.remotesThrow
    /\ remoteObs.remotes =
          <<RemoteRecord("upstream", "https://github.com/owner/repo"),
            RemoteRecord("origin", "git@github.com:owner/repo.git")>>
    /\ remoteResult = [url |-> JsString("https://github.com/owner/repo")]


-----------------------------------------------------------------------------
\* The scan over directories whose package.json is in every state.

MaxManifestDirs == 2

ManifestStates ==
    { UnreadableManifest, InvalidManifest, Manifest(Undefined),
      Manifest(JsString("A demo")) }

ManifestFileSets == {{"notes.txt"}, {"package.json"}, {"package.json", "README.md"}}

ManifestEntriesAt(i) ==
    [name : {DirName(i)}, isDirectory : {TRUE}, files : ManifestFileSets,
     mtime : {DaysAgo(2)}, manifest : ManifestStates]

RECURSIVE ManifestListingsOfLen(_)
ManifestListingsOfLen(n) ==
    IF n = 0 THEN { <<>> }
    ELSE { Append(l, e) : l \in ManifestListingsOfLen(n - 1),
                          e \in ManifestEntriesAt(n) }

InitManifest ==
    /\ InitPipeline(UNION {ManifestListingsOfLen(n) : n \in 0..MaxManifestDirs})
    /\ root = "directory"

SpecManifest == InitManifest /\ [][NextScan]_vars

\* C20: a directory whose package.json exists but cannot be read or parsed is
\* returned as a record with description undefined and hasPackageJson true;
\* the only error it can come back as is the one of a failing stat.
C20_BrokenManifestIsNoError ==
    (pc = "scanned" /\ root = "directory") =>
        \A i \in DOMAIN results :
            (/\ "package.json" \in directories[i].files
             /\ directories[i].manifest.kind # "json") =>
                IF IsProjectResult(results[i])
                THEN /\ results[i].project.description = Undefined
                     /\ results[i].project.hasPackageJson
                ELSE results[i].error
                         = "Failed to scan project: " \o FsError("stat").message

\* C20 witnesses a scanned directory with a package.json that is not JSON.
C20_Witness ==
    /\ pc = "scanned"
    /\ Len(results) = 2
    /\ "package.json" \in directories[1].files
    /\ directories[1].manifest = InvalidManifest
    /\ directories[2].manifest = UnreadableManifest
    /\ "package.json" \in directories[2].files
    /\ IsProjectResult(results[1])
    /\ results[1].project.description = Undefined
    /\ results[1].project.hasPackageJson
    /\ IsProjectResult(results[2])
    /\ results[2].project.description = Undefined


-----------------------------------------------------------------------------
\* The server functions on top of the pipeline: refreshProjects (actions.ts
\* lines 50-84) and GET /api/projects (route handler, lines 307-356).

MaxRouteDirs == 2

RouteFileSets == { {"package.json"} }
RouteMtimes == { DaysAgo(2), DaysAgo(40) }

\* The ids GET /api/projects/[id] is asked for: none, those of the listed
\* directories, and one that no directory has.
RequestIds == {""} \cup {DirName(i) : i \in 1..MaxRouteDirs} \cup {"absent"}

InitRoutes ==
    /\ PipelineStart(Listings(MaxRouteDirs, RouteFileSets, RouteMtimes))
    /\ IdleExcept("routes")
    /\ \/ caller \in {"refresh", "list"} /\ requestId = ""
       \/ caller = "detail" /\ requestId \in RequestIds
    /\ response = Undefined

\* Faulty variant: any error in the scan result is fatal.
scanFailed_anyError(scanResults) == Len(filterScanErrors(scanResults)) > 0

\* GET /api/projects, line 314: errors and no successful record.
scanFailed(scanResults) ==
    /\ Len(filterScanErrors(scanResults)) > 0
    /\ Len(filterSuccessfulScans(scanResults)) = 0

RECURSIVE joinStrings(_, _)
\* Array.prototype.join
joinStrings(strings, separator) ==
    IF strings = <<>> THEN ""
    ELSE IF Len(strings) = 1 THEN strings[1]
    ELSE strings[1] \o separator \o joinStrings(Tail(strings), separator)

\* Where a record goes into a list sorted newest first: behind every record
\* that is not older, which keeps the sort stable.
insertNewestFirst(sorted, project) ==
    LET ahead == Cardinality({i \in DOMAIN sorted :
                     getTime(sorted[i].lastModified) >= getTime(project.lastModified)})
    IN  SubSeq(sorted, 1, ahead) \o <<project>> \o SubSeq(sorted, ahead + 1, Len(sorted))

RECURSIVE sortNewestFirst(_)
\* sort((a, b) => b.lastModified.getTime() - a.lastModified.getTime())
sortNewestFirst(list) ==
    IF list = <<>> THEN <<>>
    ELSE insertNewestFirst(sortNewestFirst(SubSeq(list, 1, Len(list) - 1)),
                           list[Len(list)])

\* refreshProjects, lines 56-60: the scan result is filtered and enriched
\* whatever it holds.
RefreshEnrichStart ==
    /\ caller = "refresh"
    /\ EnrichStart

\* refreshProjects, lines 62-83.
RefreshReturn ==
    /\ caller = "refresh"
    /\ pc \in {"done", "rejected"}
    /\ response' =
          IF pc = "rejected"
          THEN [success |-> FALSE, projectCount |-> 0, errorCount |-> 1,
                message |-> "Failed to refresh projects"]
          ELSE LET errors == filterScanErrors(results)
               IN  [success |-> TRUE,
                    projectCount |-> Len(enriched),
                    errorCount |-> Len(errors),
                    message |->
                        IF Len(errors) > 0
                        THEN "Refreshed " \o ToString(Len(enriched))
                                 \o " projects with " \o ToString(Len(errors))
                                 \o " errors"
                        ELSE "Successfully refreshed " \o ToString(Len(enriched))
                                 \o " projects"]
    /\ pc' = "returned"
    /\ UNCHANGED <<caller, requestId, now, classifyVars, root, entries, includeHidden,
                   scanOut, results, projects, lookups, enrichOut, enriched,
                   notRouteVars>>

\* GET /api/projects, lines 313-324: the 500 answer.
ListScanFailed ==
    /\ caller = "list"
    /\ pc = "scanned"
    /\ scanFailed(results)
    /\ response' =
          [status |-> 500, error |-> "Failed to scan projects directory",
           code |-> "SCAN_FAILED",
           details |-> joinStrings([i \in DOMAIN filterScanErrors(results) |->
                                       filterScanErrors(results)[i].error], "; ")]
    /\ pc' = "returned"
    /\ UNCHANGED <<caller, requestId, now, classifyVars, root, entries, includeHidden,
                   scanOut, results, projects, lookups, enrichOut, enriched,
                   notRouteVars>>

\* GET /api/projects, lines 326-330.
ListEnrichStart ==
    /\ caller = "list"
    /\ ~scanFailed(results)
    /\ EnrichStart

\* GET /api/projects, lines 332-355.
ListReturn ==
    /\ caller = "list"
    /\ pc \in {"done", "rejected"}
    /\ response' =
          IF pc = "rejected"
          THEN [status |-> 500, error |-> "Failed to fetch projects",
                code |-> "INTERNAL_ERROR", details |-> "rejected"]
          ELSE [status |-> 200,
                projects |-> sortNewestFirst(enriched),
                total |-> Len(sortNewestFirst(enriched)),
                scannedAt |-> Date(now)]
    /\ pc' = "returned"
    /\ UNCHANGED <<caller, requestId, now, classifyVars, root, entries, includeHidden,
                   scanOut, results, projects, lookups, enrichOut, enriched,
                   notRouteVars>>

\* Array.prototype.find: the first record with the id, Undefined if none.
findById(list, id) ==
    IF \E i \in DOMAIN list : list[i].id = id
    THEN list[CHOOSE i \in DOMAIN list :
                 /\ list[i].id = id
                 /\ \A j \in 1..(i - 1) : list[j].id # id]
    ELSE Undefined

\* GET /api/projects/[id], lines 452-455 (the same statement is lines 179-182
\* of the detail page's getProject): the status is classified with the
\* record's lastModified.
detailEnrich(project, result, at) ==
    IF "gitInfo" \in DOMAIN result
    THEN [project EXCEPT !.gitInfo = result.gitInfo,
                         !.status = determineProjectStatus(result.gitInfo,
                                        project.lastModified, at)]
    ELSE project

\* GET /api/projects/[id], lines 418-428: an empty id is answered with 400
\* before anything is scanned.
DetailInvalidId ==
    /\ caller = "detail"
    /\ pc = "start"
    /\ requestId = ""
    /\ response' = [status |-> 400, error |-> "Invalid project ID",
                    code |-> "INVALID_ID"]
    /\ pc' = "returned"
    /\ UNCHANGED <<caller, requestId, now, classifyVars, root, entries,
                   includeHidden, scanOut, results, projects, lookups,
                   enrichOut, enriched, notRouteVars>>

\* GET /api/projects/[id], line 431: the scan starts for a non-empty id.
DetailScanStart ==
    /\ caller = "detail"
    /\ requestId # ""
    /\ ScanStart

\* GET /api/projects/[id], lines 432-446: the record is looked up by id.
DetailFind ==
    /\ caller = "detail"
    /\ pc = "scanned"
    /\ projects' = filterSuccessfulScans(results)
    /\ IF findById(filterSuccessfulScans(results), requestId) = Undefined
       THEN /\ response' = [status |-> 404, error |-> "Project not found",
                            code |-> "NOT_FOUND"]
            /\ pc' = "returned"
       ELSE /\ response' = response
            /\ pc' = "found"
    /\ UNCHANGED <<caller, requestId, now, classifyVars, root, entries,
                   includeHidden, scanOut, results, lookups, enrichOut,
                   enriched, notRouteVars>>

\* GET /api/projects/[id], lines 449-464: the repository is looked up and the
\* record answered.
DetailReturn ==
    /\ caller = "detail"
    /\ pc = "found"
    /\ \E obs \in PipelineObservations :
          /\ lookups' = <<getGitStatus(obs)>>
          /\ response' = [status |-> 200,
                          project |-> detailEnrich(findById(projects, requestId),
                                                   getGitStatus(obs), Date(now)),
                          fetchedAt |-> Date(now)]
    /\ pc' = "returned"
    /\ UNCHANGED <<caller, requestId, now, classifyVars, root, entries,
                   includeHidden, scanOut, results, projects, enrichOut,
                   enriched, notRouteVars>>

\* refreshProjects and GET /api/projects start their scan unconditionally.
ListScanStart ==
    /\ caller \in {"refresh", "list"}
    /\ ScanStart

NextRoutes ==
    \/ ListScanStart
    \/ DetailInvalidId
    \/ DetailScanStart
    \/ DetailFind
    \/ DetailReturn
    \/ \E i \in DOMAIN scanOut : ScanCallback(i)
    \/ ScanReturn
    \/ RefreshEnrichStart
    \/ ListScanFailed
    \/ ListEnrichStart
    \/ \E i \in DOMAIN enrichOut : EnrichCallback(i)
    \/ EnrichReturn
    \/ RefreshReturn
    \/ ListReturn

SpecRoutes == InitRoutes /\ [][NextRoutes]_vars

\* C21: when the scan of the root returns a root-level error, refreshProjects
\* returns success = false.
C21_RootErrorFailsRefresh ==
    (caller = "refresh" /\ pc = "returned" /\ root # "directory") =>
        response.success = FALSE

\* How often a value occurs in a list, and whether two lists hold the same
\* values equally often.
Occurrences(list, x) == Cardinality({i \in DOMAIN list : list[i] = x})

IsPermutation(a, b) ==
    /\ Len(a) = Len(b)
    /\ \A i \in DOMAIN a : Occurrences(a, a[i]) = Occurrences(b, a[i])

\* C22: GET /api/projects answers 500 SCAN_FAILED exactly when the scan
\* result holds an error and no record; otherwise it answers 200 with the
\* enriched records of the successful scans, newest lastModified first, and
\* total their number.
C22_ScanFailedOnlyWithoutRecords ==
    (caller = "list" /\ pc = "returned") =>
        LET errors == {i \in DOMAIN results : IsErrorResult(results[i])}
            records == {i \in DOMAIN results : IsProjectResult(results[i])}
        IN  IF errors # {} /\ records = {}
            THEN /\ response.status = 500
                 /\ response.code = "SCAN_FAILED"
            ELSE /\ response.status = 200
                 /\ response.total = Cardinality(records)
                 /\ Len(response.projects) = Cardinality(records)
                 /\ IsPermutation(response.projects, enriched)
                 /\ \A i, j \in DOMAIN response.projects :
                       i < j => getTime(response.projects[i].lastModified)
                                    >= getTime(response.projects[j].lastModified)

\* C22 witnesses an answer with one record although a sibling failed, and
\* with the newer of two records first.
C22_Witness ==
    /\ caller = "list"
    /\ pc = "returned"
    /\ Len(results) = 2
    /\ IsErrorResult(results[1])
    /\ IsProjectResult(results[2])
    /\ response.status = 200
    /\ response.total = 1


\* C23: for the same record and the same repository state seen at the same
\* instant, the detail path sets the status the list pipeline's enrichment
\* sets, whatever the RepoInfo, one without lastCommitDate included.
C23_DetailAgreesWithList ==
    (caller = "detail" /\ pc = "returned" /\ response.status = 200) =>
        response.project.status
            = enrichCallback(findById(projects, requestId), lookups[1],
                             Date(now)).status


-----------------------------------------------------------------------------
\* AuthProvider (web/ui/src/context/AuthContext.jsx).

MaxInFlight == 3

AuthTokens == {JsString("t1"), JsString("t2")}

\* What GET /api/auth/me answers for a token it accepts.
UserOf(token) == [name |-> "user of " \o token.string]

NoFetches == [t \in AuthTokens |-> 0]

RECURSIVE SumOver(_, _)
SumOver(f, S) ==
    IF S = {} THEN 0
    ELSE LET x == CHOOSE y \in S : TRUE IN f[x] + SumOver(f, S \ {x})

InFlight == SumOver(authFetches, AuthTokens)

InitAuth ==
    /\ CoreIdle
    /\ IdleExcept("auth")
    /\ authToken = Null
    /\ authUser = Null
    /\ authLoading = TRUE
    /\ authStorage \in {Null} \cup AuthTokens
    /\ authMounted = FALSE
    /\ authEffectDep = Null
    /\ authFetches = NoFetches

\* The mount effects (lines 28-41): a saved token is put into the state and
\* fetched; the [token] effect sees the null token of the first render.
AuthMount ==
    /\ ~authMounted
    /\ authMounted' = TRUE
    /\ authLoading' = FALSE
    /\ authToken' = authStorage
    /\ authFetches' = IF authStorage = Null THEN authFetches
                      ELSE [authFetches EXCEPT ![authStorage] = @ + 1]
    /\ UNCHANGED <<authUser, authStorage, authEffectDep, coreVars, notAuthVars>>

\* The [token] effect (lines 37-41) runs after a render in which the token
\* changed, before anything else is rendered.
AuthTokenEffect ==
    /\ authMounted
    /\ authToken # authEffectDep
    /\ authEffectDep' = authToken
    /\ authFetches' = IF authToken = Null THEN authFetches
                      ELSE [authFetches EXCEPT ![authToken] = @ + 1]
    /\ UNCHANGED <<authToken, authUser, authLoading, authStorage, authMounted,
                   coreVars, notAuthVars>>

EffectsFlushed == authMounted /\ authToken = authEffectDep

\* login (lines 43-46).
AuthLogin(token) ==
    /\ EffectsFlushed
    /\ InFlight < MaxInFlight
    /\ authStorage' = token
    /\ authToken' = token
    /\ UNCHANGED <<authUser, authLoading, authMounted, authEffectDep,
                   authFetches, coreVars, notAuthVars>>

\* logout (lines 48-52).
AuthLogout ==
    /\ EffectsFlushed
    /\ authStorage' = Null
    /\ authToken' = Null
    /\ authUser' = Null
    /\ UNCHANGED <<authLoading, authMounted, authEffectDep, authFetches,
                   coreVars, notAuthVars>>

\* refreshUser (line 63): token && fetchCurrentUser(token).
AuthRefreshUser ==
    /\ EffectsFlushed
    /\ authToken # Null
    /\ InFlight < MaxInFlight
    /\ authFetches' = [authFetches EXCEPT ![authToken] = @ + 1]
    /\ UNCHANGED <<authToken, authUser, authLoading, authStorage, authMounted,
                   authEffectDep, coreVars, notAuthVars>>

\* A fetch for `token` answers ok (lines 13-18): the user is set, whatever the
\* token state is by now.
AuthFetchSucceeds(token) ==
    /\ EffectsFlushed
    /\ authFetches[token] > 0
    /\ authFetches' = [authFetches EXCEPT ![token] = @ - 1]
    /\ authUser' = UserOf(token)
    /\ UNCHANGED <<authToken, authLoading, authStorage, authMounted,
                   authEffectDep, coreVars, notAuthVars>>

\* A fetch for `token` fails or answers not ok (lines 16, 19-25): the stored
\* token, the token state and the user are cleared.
AuthFetchFails(token) ==
    /\ EffectsFlushed
    /\ authFetches[token] > 0
    /\ authFetches' = [authFetches EXCEPT ![token] = @ - 1]
    /\ authStorage' = Null
    /\ authToken' = Null
    /\ authUser' = Null
    /\ UNCHANGED <<authLoading, authMounted, authEffectDep, coreVars, notAuthVars>>

NextAuth ==
    \/ AuthMount
    \/ AuthTokenEffect
    \/ \E token \in AuthTokens : AuthLogin(token)
    \/ AuthLogout
    \/ AuthRefreshUser
    \/ \E token \in AuthTokens : AuthFetchSucceeds(token)
    \/ \E token \in AuthTokens : AuthFetchFails(token)

SpecAuth == InitAuth /\ [][NextAuth]_vars

\* C24: under every interleaving of login, logout and the completions of the
\* fetches in flight, user is non-null only while token is non-null, and the
\* completion of a fetch started for another token than the stored one
\* leaves the stored token alone.
C24_NoStaleFetchEffect ==
    [][/\ authUser' # Null => authToken' # Null
       /\ \A token \in AuthTokens :
             (/\ authFetches'[token] < authFetches[token]
              /\ authStorage # Null
              /\ authStorage # token) => authStorage' = authStorage]_vars


-----------------------------------------------------------------------------
\* usePagination (src/hooks/use-pagination.ts).

MaxItems == 5
MaxPageSize == 3
MaxPage == 4

NaN == [nan |-> TRUE]

DigitValue == [c \in {"0", "1", "2", "3", "4", "5", "6", "7", "8", "9"} |->
                 CASE c = "0" -> 0 [] c = "1" -> 1 [] c = "2" -> 2
                   [] c = "3" -> 3 [] c = "4" -> 4 [] c = "5" -> 5
                   [] c = "6" -> 6 [] c = "7" -> 7 [] c = "8" -> 8
                   [] c = "9" -> 9]

\* The value of the leading decimal digits of str, after `acc`.
RECURSIVE parseDigits(_, _)
parseDigits(str, acc) ==
    IF str = "" \/ CharAt(str, 1) \notin DOMAIN DigitValue THEN acc
    ELSE parseDigits(Rest(str), 10 * acc + DigitValue[CharAt(str, 1)])

unsigned(str) == IF str # "" /\ CharAt(str, 1) = "-" THEN Rest(str) ELSE str

\* Whether parseInt(str, 10) is a number: str starts with a digit after an
\* optional sign.
parsesAsNumber(str) ==
    unsigned(str) # "" /\ CharAt(unsigned(str), 1) \in DOMAIN DigitValue

\* parseInt(str, 10) of a string without leading white space.
parseInt(str) ==
    IF ~parsesAsNumber(str) THEN NaN
    ELSE IF unsigned(str) # str THEN 0 - parseDigits(unsigned(str), 0)
    ELSE parseDigits(str, 0)

\* Number.prototype.toString of an integer.
numberToString(n) == IF n < 0 THEN "-" \o ToString(0 - n) ELSE ToString(n)

\* The lazy initial state (lines 116-128): a parameter that is present and
\* parses to a positive number, else the option.
initialState(param, option) ==
    LET given == param # Null /\ param.string # ""
        parsed == IF given THEN parseInt(param.string) ELSE option
        \* NaN > 0 is false
        positive == IF given /\ ~parsesAsNumber(param.string) THEN FALSE
                    ELSE parsed > 0
    IN IF positive THEN parsed ELSE option

max(a, b) == IF a >= b THEN a ELSE b
min(a, b) == IF a <= b THEN a ELSE b
ceilDiv(a, b) == (a + b - 1) \div b

totalPagesOf(items, size) == max(1, ceilDiv(items, size))

totalPages == totalPagesOf(totalItems, pageSize)
hasPreviousPage == currentPage > 1
hasNextPage == currentPage < totalPages
startIndex == (currentPage - 1) * pageSize
endIndex == min(startIndex + pageSize, totalItems)

PageParams == {Null, JsString(""), JsString("0"), JsString("-1"),
               JsString("x")} \cup {JsString(ToString(n)) : n \in 1..MaxPage}
PageSizeParams == {Null, JsString("0"), JsString("2x")}
                      \cup {JsString(ToString(n)) : n \in 1..MaxPageSize}

InitPagination ==
    /\ CoreIdle
    /\ IdleExcept("pagination")
    /\ totalItems \in 0..MaxItems
    /\ searchParams \in [page : PageParams, pageSize : PageSizeParams]
    /\ \E initialPage \in {1, MaxPage} :
          currentPage = initialState(searchParams.page, initialPage)
    /\ \E initialPageSize \in {1, MaxPageSize} :
          pageSize = initialState(searchParams.pageSize, initialPageSize)
    /\ pageCall = [op |-> "mount", arg |-> 0]

\* updateUrl (lines 146-157) with syncWithUrl.
updateUrl(page, size) ==
    [page |-> JsString(numberToString(page)),
     pageSize |-> JsString(numberToString(size))]

\* Faulty variant: the page is taken as given.
goToPage_noClamp(page) ==
    /\ currentPage' = page
    /\ searchParams' = updateUrl(page, pageSize)
    /\ UNCHANGED <<totalItems, pageSize>>

\* goToPage (lines 162-170).
goToPage(page) ==
    LET clampedPage == max(1, min(page, totalPages))
    IN /\ currentPage' = clampedPage
       /\ searchParams' = updateUrl(clampedPage, pageSize)
       /\ UNCHANGED <<totalItems, pageSize>>

\* The auto-correct effect (lines 205-209) runs after every render whose page
\* or page count changed, before the next event is handled; it acts when the
\* page is out of range.
\* Faulty variant: a single page is never corrected.
OutOfRange_multiPage == currentPage > totalPages /\ totalPages > 1

OutOfRange == currentPage > totalPages /\ totalPages > 0

PageAutoCorrect ==
    /\ OutOfRange
    /\ goToPage(totalPages)
    /\ pageCall' = [op |-> "autoCorrect", arg |-> 0]
    /\ UNCHANGED <<coreVars, notPageVars>>

PageGoToPage(page) ==
    /\ ~OutOfRange
    /\ goToPage(page)
    /\ pageCall' = [op |-> "goToPage", arg |-> page]
    /\ UNCHANGED <<coreVars, notPageVars>>

\* nextPage (lines 174-178).
PageNextPage ==
    /\ ~OutOfRange
    /\ IF hasNextPage THEN goToPage(currentPage + 1)
       ELSE UNCHANGED <<totalItems, currentPage, pageSize, searchParams>>
    /\ pageCall' = [op |-> "nextPage", arg |-> 0]
    /\ UNCHANGED <<coreVars, notPageVars>>

\* previousPage (lines 183-187).
PagePreviousPage ==
    /\ ~OutOfRange
    /\ IF hasPreviousPage THEN goToPage(currentPage - 1)
       ELSE UNCHANGED <<totalItems, currentPage, pageSize, searchParams>>
    /\ pageCall' = [op |-> "previousPage", arg |-> 0]
    /\ UNCHANGED <<coreVars, notPageVars>>

\* setPageSize (lines 192-202).
PageSetPageSize(size) ==
    /\ ~OutOfRange
    /\ LET validSize == max(1, size)
       IN /\ pageSize' = validSize
          /\ currentPage' = 1
          /\ searchParams' = updateUrl(1, validSize)
    /\ pageCall' = [op |-> "setPageSize", arg |-> size]
    /\ UNCHANGED <<totalItems, coreVars, notPageVars>>

\* The component renders again with another number of items.
PageRender(items) ==
    /\ ~OutOfRange
    /\ items # totalItems
    /\ totalItems' = items
    /\ pageCall' = [op |-> "render", arg |-> items]
    /\ UNCHANGED <<currentPage, pageSize, searchParams, coreVars, notPageVars>>

NextPagination ==
    \/ PageAutoCorrect
    \/ \E page \in -1..(MaxItems + 1) : PageGoToPage(page)
    \/ PageNextPage
    \/ PagePreviousPage
    \/ \E size \in -1..MaxPageSize : PageSetPageSize(size)
    \/ \E items \in 0..MaxItems : PageRender(items)

SpecPagination == InitPagination /\ [][NextPagination]_vars

\* React runs a pending effect; nothing else has to happen for it.
SpecPaginationLive == SpecPagination /\ WF_vars(PageAutoCorrect)

InRange ==
    /\ 1 <= currentPage /\ currentPage <= totalPages
    /\ 0 <= startIndex /\ startIndex <= endIndex /\ endIndex <= totalItems

\* C25: whenever currentPage exceeds totalPages, currentPage eventually
\* becomes totalPages without a user action, and then the page and the slice
\* indices are in range.
C25_AutoCorrects ==
    (currentPage > totalPages) ~> (currentPage = totalPages /\ InRange)

C25_Witness ==
    /\ pageCall.op = "autoCorrect"
    /\ currentPage = totalPages
    /\ currentPage > 1


\* C26: goToPage(p) sets currentPage to p clamped to [1, totalPages]; nextPage
\* on the last page and previousPage on page 1 change nothing; setPageSize(s)
\* sets pageSize to max(1, s) and currentPage to 1; totalPages is the least
\* n >= 1 with n * pageSize >= totalItems, which is 1 without items.
C26_NavigationInRange ==
    [][/\ pageCall'.op = "goToPage" =>
             /\ pageSize' = pageSize
             /\ currentPage' = IF pageCall'.arg < 1 THEN 1
                               ELSE IF pageCall'.arg > totalPages
                                    THEN totalPages
                               ELSE pageCall'.arg
       /\ (pageCall'.op = "nextPage" /\ currentPage = totalPages) =>
             UNCHANGED <<currentPage, pageSize, totalItems, searchParams>>
       /\ (pageCall'.op = "previousPage" /\ currentPage = 1) =>
             UNCHANGED <<currentPage, pageSize, totalItems, searchParams>>
       /\ pageCall'.op = "setPageSize" =>
             /\ pageSize' = (IF pageCall'.arg >= 1 THEN pageCall'.arg ELSE 1)
             /\ currentPage' = 1
       /\ totalPages' >= 1
       /\ totalPages' * pageSize' >= totalItems'
       /\ totalPages' > 1 => (totalPages' - 1) * pageSize' < totalItems'
       /\ totalItems' = 0 => totalPages' = 1]_vars

C26_Witness ==
    /\ pageCall.op = "goToPage"
    /\ pageCall.arg > totalPages
    /\ currentPage = totalPages
    /\ totalPages > 1


-----------------------------------------------------------------------------
\* The tag store under addTagToProject and removeTagFromProject alone, one
\* call after the other, from a store of non-empty duplicate-free lists.

NoDuplicates(list) ==
    \A i, j \in DOMAIN list : list[i] = list[j] => i = j

CleanLists == {l \in TagLists : l # <<>> /\ NoDuplicates(l)}

CleanTagFiles ==
    {[kind |-> "missing"], [kind |-> "unreadable"]}
        \cup {JsonFile(m) : m \in UNION {[ids -> CleanLists] : ids \in SUBSET TagIds}}

InitTagOps ==
    /\ CoreIdle
    /\ IdleExcept("tags")
    /\ tagFile \in CleanTagFiles
    /\ tagCallers = [c \in Callers |-> NoCall]
    /\ tagLastWriter = 0

\* The caller enters addTagToProject or removeTagFromProject.
TagOpCall(c) ==
    /\ tagCallers[c].pc \in {"idle", "done", "threw"}
    /\ \E call \in AddCalls \cup RemoveCalls :
          tagCallers' = [tagCallers EXCEPT ![c] = call]
    /\ tagLastWriter' = 0
    /\ UNCHANGED <<tagFile, coreVars, notTagVars>>

NextTagOps ==
    \/ TagOpCall(1)
    \/ TagAddRead(1)
    \/ TagRemoveRead(1)
    \/ TagSaveLoad(1)
    \/ TagSaveWrite(1)
    \/ TagSaveWriteFails(1)

SpecTagOps == InitTagOps /\ [][NextTagOps]_vars

StoredList(file, id) ==
    IF id \in DOMAIN loadProjectTags(file) THEN loadProjectTags(file)[id]
    ELSE <<>>

\* C27: after every step of a sequence of non-overlapping addTagToProject and
\* removeTagFromProject calls, every stored list is non-empty and free of
\* duplicates, and the lists of the projects the call is not addressed to
\* are what they were.
C27_ListsStayClean ==
    [][LET before == loadProjectTags(tagFile)
           after == loadProjectTags(tagFile')
       IN  /\ \A k \in DOMAIN after :
                 after[k] # <<>> /\ NoDuplicates(after[k])
           /\ \A k \in TagIds \ {tagCallers[1].id} :
                 /\ k \in DOMAIN after <=> k \in DOMAIN before
                 /\ k \in DOMAIN after => after[k] = before[k]]_vars

\* The last tag of app was removed, its key is gone and api has its list.
C27_Witness ==
    /\ tagCallers[1].op = "remove"
    /\ tagCallers[1].id = "app"
    /\ tagCallers[1].pc = "done"
    /\ tagCallers[1].currentTags = JsArray(<<"work">>)
    /\ tagLastWriter = 1
    /\ "app" \notin DOMAIN loadProjectTags(tagFile)
    /\ "api" \in DOMAIN loadProjectTags(tagFile)

\* C28: addTagToProject leaves the store alone when the list includes the
\* tag, and otherwise goes on to save the list with the tag appended, which
\* is what a write stores; once it has returned the list includes the tag,
\* so that the same call again leaves the store as it is.
C28_AddIdempotent ==
    [][LET call == tagCallers[1]
           list == StoredList(tagFile, call.id)
       IN  /\ (/\ call.op = "add"
               /\ call.pc = "start"
               /\ Includes(list, call.tag)) =>
                    /\ tagCallers'[1].pc = "done"
                    /\ tagFile' = tagFile
           /\ (/\ call.op = "add"
               /\ call.pc = "start"
               /\ ~Includes(list, call.tag)) =>
                    /\ tagCallers'[1].pc = "saving"
                    /\ tagCallers'[1].tags = Append(list, call.tag)
           /\ (call.op = "add" /\ tagFile' # tagFile) =>
                    /\ ~Includes(list, call.tag)
                    /\ StoredList(tagFile', call.id) = Append(list, call.tag)
           /\ (tagCallers'[1].op = "add" /\ tagCallers'[1].pc = "done") =>
                    Includes(StoredList(tagFile', tagCallers'[1].id),
                             tagCallers'[1].tag)]_vars


-----------------------------------------------------------------------------
\* Scans of a root whose directory names may normalize to one id, with tag
\* mutations between the scans.

MaxTagScanDirs == 2

CollidingNames == {"My App", "my-app", "my_app"}

ScanTagIds == {createProjectId(name) : name \in CollidingNames}

TagScanEntries ==
    [name : CollidingNames, isDirectory : {TRUE}, files : {{"package.json"}},
     mtime : {DaysAgo(2)}, manifest : {DefaultManifest}]

RECURSIVE TagScanListingsOfLen(_)
TagScanListingsOfLen(n) ==
    IF n = 0 THEN {<<>>}
    ELSE {Append(l, e) : <<l, e>> \in
             {p \in TagScanListingsOfLen(n - 1) \X TagScanEntries :
                 \A i \in DOMAIN p[1] : p[1][i].name # p[2].name}}

TagScanListings ==
    UNION {TagScanListingsOfLen(n) : n \in 1..MaxTagScanDirs}

TagScanCalls ==
    {[NoCall EXCEPT !.op = op, !.id = id, !.tag = tag, !.pc = "start"] :
        op \in {"add", "remove"}, id \in ScanTagIds, tag \in Tags}

InitTagScan ==
    /\ PipelineStart(TagScanListings)
    /\ root = "directory"
    /\ IdleExcept("tags")
    /\ tagFile \in {[kind |-> "missing"],
                    JsonFile([k \in {"my-app"} |-> <<"web">>])}
    /\ tagCallers = [c \in Callers |-> NoCall]
    /\ tagLastWriter = 0

TagCallOver(c) == tagCallers[c].pc \in {"idle", "done", "threw"}

\* Between two scans the caller enters addTagToProject or
\* removeTagFromProject with a derived id.
TagScanCall(c) ==
    /\ pc = "start"
    /\ TagCallOver(c)
    /\ \E call \in TagScanCalls :
          tagCallers' = [tagCallers EXCEPT ![c] = call]
    /\ tagLastWriter' = 0
    /\ UNCHANGED <<tagFile, coreVars, notTagVars>>

\* scanDirectory is called once the tag call has returned.
TagScanStart == TagCallOver(1) /\ ScanStart

\* The results are handed over; the next call of scanDirectory starts afresh.
ScanAgain ==
    /\ pc = "scanned"
    /\ pc' = "start"
    /\ scanOut' = <<>>
    /\ results' = <<>>
    /\ UNCHANGED <<extVars, lookups, now, classifyVars, root, entries,
                   includeHidden, projects, enrichOut, enriched>>

NextTagScan ==
    \/ TagScanCall(1)
    \/ TagAddRead(1)
    \/ TagRemoveRead(1)
    \/ TagSaveLoad(1)
    \/ TagSaveWrite(1)
    \/ TagSaveWriteFails(1)
    \/ TagScanStart
    \/ \E i \in DOMAIN scanOut : ScanCallback(i)
    \/ ScanReturn
    \/ ScanAgain

SpecTagScan == InitTagScan /\ [][NextTagScan]_vars

\* C29: a scan returns one outcome per directory; two records of directories
\* whose names normalize to one id have that id and the same tags, which
\* are the list the store holds under the id at the time of the scan,
\* whatever was added or removed through the id before.
C29_TagsKeyedById ==
    pc = "scanned" =>
        /\ Len(results) = Len(directories)
        /\ \A i \in DOMAIN results : IsProjectResult(results[i]) =>
              /\ results[i].project.name = directories[i].name
              /\ results[i].project.id = createProjectId(directories[i].name)
              /\ results[i].project.tags
                    = JsArray(StoredList(tagFile, results[i].project.id))
        /\ \A i, j \in DOMAIN results :
              (/\ IsProjectResult(results[i])
               /\ IsProjectResult(results[j])
               /\ createProjectId(directories[i].name)
                     = createProjectId(directories[j].name)) =>
                    /\ results[i].project.id = results[j].project.id
                    /\ results[i].project.tags = results[j].project.tags

\* "My App" and "my-app" are both returned with the tag that was added
\* through the id my-app before the scan.
C29_Witness ==
    /\ pc = "scanned"
    /\ Len(results) = 2
    /\ IsProjectResult(results[1])
    /\ IsProjectResult(results[2])
    /\ results[1].project.name = "My App"
    /\ results[2].project.name = "my-app"
    /\ results[1].project.id = results[2].project.id
    /\ results[1].project.tags = JsArray(<<"web", "work">>)
    /\ results[2].project.tags = JsArray(<<"web", "work">>)
    /\ tagCallers[1].op = "add"
    /\ tagCallers[1].id = "my-app"
    /\ tagCallers[1].tag = "work"
    /\ tagLastWriter = 1


-----------------------------------------------------------------------------
\* sortProjects (the project sorting module).

MaxSortLen == 3

SortOptions == {"name-asc", "name-desc", "modified-newest", "modified-oldest",
                "status", "type"}

STATUS_PRIORITY ==
    [status \in {"dirty", "active", "stale", "clean", "unknown"} |->
        CASE status = "dirty" -> 0 [] status = "active" -> 1
          [] status = "stale" -> 2 [] status = "clean" -> 3
          [] status = "unknown" -> 4]

LetterRank ==
    [c \in CharsOf(LowerCaseLetters) |->
        CHOOSE i \in 1..Len(LowerCaseLetters) : CharAt(LowerCaseLetters, i) = c]

\* The order of two strings of lower-case letters: -1, 0 or 1.
RECURSIVE compareLetters(_, _)
compareLetters(a, b) ==
    IF a = "" /\ b = "" THEN 0
    ELSE IF a = "" THEN -1
    ELSE IF b = "" THEN 1
    ELSE IF CharAt(a, 1) # CharAt(b, 1)
    THEN (IF LetterRank[CharAt(a, 1)] < LetterRank[CharAt(b, 1)] THEN -1 ELSE 1)
    ELSE compareLetters(Rest(a), Rest(b))

\* a.localeCompare(b, undefined, { sensitivity: 'base' }) on unaccented
\* letters: the case is ignored.
localeCompare(a, b) == compareLetters(toLowerCase(a), toLowerCase(b))

compareByNameAsc(a, b) == localeCompare(a.name, b.name)
compareByNameDesc(a, b) == localeCompare(b.name, a.name)
compareByModifiedNewest(a, b) == getTime(b.lastModified) - getTime(a.lastModified)
compareByModifiedOldest(a, b) == getTime(a.lastModified) - getTime(b.lastModified)

\* Faulty variant: equal statuses compare as equal.
compareByStatus_noTiebreaker(a, b) ==
    STATUS_PRIORITY[a.status] - STATUS_PRIORITY[b.status]

compareByStatus(a, b) ==
    LET statusDiff == STATUS_PRIORITY[a.status] - STATUS_PRIORITY[b.status]
    IN  IF statusDiff # 0 THEN statusDiff ELSE compareByNameAsc(a, b)

getProjectTypeScore(project) ==
    IF project.hasPackageJson /\ project.hasReadme THEN 0
    ELSE IF project.hasPackageJson THEN 1
    ELSE IF project.hasReadme THEN 2
    ELSE 3

compareByType(a, b) ==
    LET typeDiff == getProjectTypeScore(a) - getProjectTypeScore(b)
    IN  IF typeDiff # 0 THEN typeDiff ELSE compareByNameAsc(a, b)

\* getSortComparator(option) applied to a and b.
getSortComparator(option, a, b) ==
    CASE option = "name-asc" -> compareByNameAsc(a, b)
      [] option = "name-desc" -> compareByNameDesc(a, b)
      [] option = "modified-newest" -> compareByModifiedNewest(a, b)
      [] option = "modified-oldest" -> compareByModifiedOldest(a, b)
      [] option = "status" -> compareByStatus(a, b)
      [] option = "type" -> compareByType(a, b)

\* Array.prototype.sort is stable: an element goes behind those already
\* placed that do not compare greater.
insertSorted(sorted, project, option) ==
    LET ahead == Cardinality({i \in DOMAIN sorted :
                     getSortComparator(option, sorted[i], project) <= 0})
    IN  SubSeq(sorted, 1, ahead) \o <<project>>
            \o SubSeq(sorted, ahead + 1, Len(sorted))

RECURSIVE arraySort(_, _)
arraySort(array, option) ==
    IF array = <<>> THEN <<>>
    ELSE insertSorted(arraySort(SubSeq(array, 1, Len(array) - 1), option),
                      array[Len(array)], option)

SortProject(name, status, lastModified, hasPackageJson, hasReadme) ==
    [name |-> name, status |-> status, lastModified |-> lastModified,
     hasPackageJson |-> hasPackageJson, hasReadme |-> hasReadme]

SortProjects ==
    { SortProject("app", "dirty", DaysAgo(2), TRUE, TRUE),
      SortProject("App", "active", DaysAgo(40), TRUE, FALSE),
      SortProject("beta", "active", DaysAgo(2), FALSE, TRUE),
      SortProject("Beta", "stale", DaysAgo(40), FALSE, FALSE),
      SortProject("app", "clean", DaysAgo(2), TRUE, FALSE),
      SortProject("zed", "unknown", DaysAgo(40), FALSE, TRUE),
      SortProject("ab", "active", DaysAgo(2), TRUE, TRUE) }

RECURSIVE SortListsOfLen(_)
SortListsOfLen(n) ==
    IF n = 0 THEN {<<>>}
    ELSE {Append(l, p) : l \in SortListsOfLen(n - 1), p \in SortProjects}

InitSort ==
    /\ CoreIdle
    /\ IdleExcept("sort")
    /\ sortArg \in UNION {SortListsOfLen(n) : n \in 0..MaxSortLen}
    /\ sortOption \in SortOptions
    /\ sortResult = Undefined
    /\ sortPc = "called"

\* sortProjects (lines 309-314): a copy of the array is sorted in place and
\* returned; the caller's array is not touched.
SortCall ==
    /\ sortPc = "called"
    /\ LET copy == sortArg
       IN  sortResult' = JsArray(arraySort(copy, sortOption))
    /\ sortPc' = "returned"
    /\ UNCHANGED <<sortArg, sortOption, coreVars, notSortVars>>

\* The caller sorts what it got by another option.
SortCallAgain ==
    /\ sortPc = "returned"
    /\ \E option \in SortOptions \ {sortOption} : sortOption' = option
    /\ sortArg' = sortResult.array
    /\ sortResult' = Undefined
    /\ sortPc' = "called"
    /\ UNCHANGED <<coreVars, notSortVars>>

NextSort == SortCall \/ SortCallAgain

SpecSort == InitSort /\ [][NextSort]_vars

\* C30: sortProjects leaves its argument as it was, for every option; with
\* 'status' it returns a permutation of the argument in which the status
\* priorities dirty, active, stale, clean, unknown never decrease and names
\* of equal status never decrease, the case ignored.
C30_SortByStatus ==
    [][sortPc' = "returned" =>
          /\ sortArg' = sortArg
          /\ sortOption' = "status" =>
                LET sorted == sortResult'.array
                    Priority(x) ==
                        CASE x.status = "dirty" -> 0 [] x.status = "active" -> 1
                          [] x.status = "stale" -> 2 [] x.status = "clean" -> 3
                          [] x.status = "unknown" -> 4
                IN  /\ IsPermutation(sorted, sortArg)
                    /\ \A i, j \in DOMAIN sorted : i < j =>
                          /\ Priority(sorted[i]) <= Priority(sorted[j])
                          /\ sorted[i].status = sorted[j].status =>
                                localeCompare(sorted[i].name, sorted[j].name) <= 0]_vars

\* Three projects came back in another order: by status, and by name within
\* the active ones.
C30_Witness ==
    /\ sortPc = "returned"
    /\ sortOption = "status"
    /\ sortArg = << SortProject("beta", "active", DaysAgo(2), FALSE, TRUE),
                    SortProject("App", "active", DaysAgo(40), TRUE, FALSE),
                    SortProject("app", "dirty", DaysAgo(2), TRUE, TRUE) >>
    /\ sortResult = JsArray(<< sortArg[3], sortArg[2], sortArg[1] >>)

=============================================================================
